---------------------------- MODULE Spec2Model ----------------------------
(***************************************************************************)
(* Verification model of the bolt backend (src/backend):                   *)
(*   - services/rate_limiter.py : the key pool and execute_with_retry      *)
(*   - services/agents/edit_agent.py, services/agent.py : the patch engine *)
(*   - services/agents/orchestrator.py, services/agent.py, api/routes.py : *)
(*     the orchestration state (context, recent_files, current_plan)       *)
(*                                                                         *)
(* Time is counted in whole seconds.  Strings are sequences of one-letter  *)
(* strings so that substring search and line splitting can be computed.    *)
(***************************************************************************)
EXTENDS Integers, Sequences, FiniteSets, TLC

VARIABLES
    \* ---- services/rate_limiter.py -------------------------------------
    now,                \* time.time()
    api_keys,           \* RateLimiter.api_keys: sequence of APIKeyConfig
    current_key_index,  \* RateLimiter.current_key_index (0-based)
    loop_owner,         \* the coroutine running on the asyncio event loop
    pc,                 \* per caller: position inside execute_with_retry
    attempt,            \* per caller: the for-loop variable
    last_error,         \* per caller: last_error
    wake_at,            \* per caller: when its asyncio.sleep is due
    served,             \* per caller: key configured by _do_generate
    result,             \* per caller: value returned by execute_with_retry
    log,                \* per caller: the oracle invocations of this call
    observed,           \* the callers whose invocations the log records
    horizon,            \* the time at which the model's clock stops
    ev,                 \* the last key pool operation and what it returned
    \* ---- the patch engine (edit_agent.py / agent.py) -------------------
    pe_original,        \* _apply_multiple_diffs: original_content
    pe_changes,         \* _apply_multiple_diffs: changes
    pe_idx,             \* number of changes the for loop has gone through
    pe_content,         \* _apply_multiple_diffs: content
    pe_failed,          \* _apply_multiple_diffs: failed
    pe_last,            \* the last _apply_diff call: arguments and result
    \* ---- the session object: Orchestrator / Agent ----------------------
    context,            \* self.context: list of {file, summary}
    recent_files,       \* self.recent_files: dict path -> content
    current_plan,       \* self.current_plan
    last_call,          \* the last operation: who issued it, what it returned
    call_args           \* one execute_task call looked at alone: its arguments

rlVars == <<now, api_keys, current_key_index, loop_owner, pc, attempt,
            last_error, wake_at, served, result, log, observed, horizon, ev>>

peVars == <<pe_original, pe_changes, pe_idx, pe_content, pe_failed, pe_last>>

orVars == <<context, recent_files, current_plan, last_call, call_args>>

vars == <<rlVars, peVars, orVars>>

-----------------------------------------------------------------------------
(* Bounds of the model *)

MaxKeys == 2        \* number of configured credentials is 1..MaxKeys
MaxTime == 5        \* the clock stops ticking at MaxTime
ConcMaxTime == 3    \* the same, when several callers run at once
MaxOrigLen == 3     \* one _apply_diff call: length of original_content
MaxSearchLen == 2   \* one _apply_diff call: length of search_block
MaxReplaceLen == 2  \* one _apply_diff call: length of replace_block
MaxChanges == 2     \* _apply_multiple_diffs: length of changes
MaxOrigLines == 3   \* fuzzy matching: lines of original_content
MaxSearchLines == 3 \* fuzzy matching: lines of search_block
MaxContext == 1     \* self.context: the last MaxContext entries are kept

Callers == {"c1", "c2"}          \* concurrent generate calls
Texts == {"t1", "t2"}            \* texts the oracle may answer
ErrIds == {1, 2}                 \* non-rate-limit errors the oracle may raise
RetryDelays == {2, 5}            \* delays a rate-limit error text may carry
NoCaller == "none"
NoText == "none"

\* An oracle error, as far as its message string matters: kind is "rate" when
\* the text holds "429", "quota" or "rate"; pattern says whether one of the
\* retry patterns matches and val is the number it captures (for a generic
\* error val only tells one error from another).
NoError == [kind |-> "none", pattern |-> FALSE, val |-> 0]
RateErrors == {[kind |-> "rate", pattern |-> TRUE, val |-> d] : d \in RetryDelays}
                 \cup {[kind |-> "rate", pattern |-> FALSE, val |-> 0]}
GenericErrors == {[kind |-> "generic", pattern |-> FALSE, val |-> e] : e \in ErrIds}

-----------------------------------------------------------------------------
(* Program constants *)

max_retries == 3
base_delay == 1
max_delay == 60
default_retry_delay == 60
min_wait_floor == 1

-----------------------------------------------------------------------------
(* Helpers *)

Min(a, b) == IF a <= b THEN a ELSE b
Max(a, b) == IF a >= b THEN a ELSE b

RECURSIVE Pow2(_)
Pow2(n) == IF n = 0 THEN 1 ELSE 2 * Pow2(n - 1)

SetMin(S) == CHOOSE x \in S : \A y \in S : x <= y

KeyIdx(keys) == 0 .. (Len(keys) - 1)

-----------------------------------------------------------------------------
(* RateLimiter: the key pool *)

\* APIKeyConfig() as _load_api_keys appends it
FreshKey == [is_rate_limited |-> FALSE, rate_limit_reset_time |-> 0]

\* _load_api_keys: n keys from the environment, or the fallback key when none
LoadApiKeys(n) == IF n = 0 THEN <<FreshKey>> ELSE [i \in 1 .. n |-> FreshKey]

\* time.time() >= key_config.rate_limit_reset_time
Expired_Early(kc, t) == t + 1 >= kc.rate_limit_reset_time
Expired(kc, t) == t >= kc.rate_limit_reset_time

\* min(self.api_keys, key=lambda k: k.rate_limit_reset_time) and its index():
\* the first key with the least reset time
SoonestIndex_Latest(keys) ==
    CHOOSE i \in KeyIdx(keys) :
        \A j \in KeyIdx(keys) :
            keys[i + 1].rate_limit_reset_time >= keys[j + 1].rate_limit_reset_time
SoonestIndex(keys) ==
    CHOOSE i \in KeyIdx(keys) :
        /\ \A j \in KeyIdx(keys) :
              keys[i + 1].rate_limit_reset_time <= keys[j + 1].rate_limit_reset_time
        /\ \A j \in KeyIdx(keys) :
              j < i => keys[j + 1].rate_limit_reset_time
                          > keys[i + 1].rate_limit_reset_time

\* the for loop of get_current_key, with `left` iterations to go
RECURSIVE ScanKeys(_, _, _, _)
ScanKeys(keys, idx, t, left) ==
    IF left = 0
    THEN LET s == SoonestIndex(keys)
         IN  [keys |-> keys, idx |-> s, key |-> s]
    ELSE LET kc == keys[idx + 1]
         IN  IF kc.is_rate_limited
             THEN IF Expired(kc, t)
                  THEN [keys |-> [keys EXCEPT ![idx + 1].is_rate_limited = FALSE],
                        idx |-> idx, key |-> idx]
                  ELSE ScanKeys(keys, (idx + 1) % Len(keys), t, left - 1)
             ELSE [keys |-> keys, idx |-> idx, key |-> idx]

\* get_current_key: the pool afterwards, the cursor afterwards, the key returned
get_current_key(keys, idx, t) == ScanKeys(keys, idx, t, Len(keys))

\* mark_rate_limited(retry_after_seconds)
mark_rate_limited_NoWrap(keys, idx, t, d) ==
    [keys |-> [keys EXCEPT ![idx + 1] =
                  [is_rate_limited |-> TRUE, rate_limit_reset_time |-> t + d]],
     idx |-> idx + 1]
mark_rate_limited(keys, idx, t, d) ==
    [keys |-> [keys EXCEPT ![idx + 1] =
                  [is_rate_limited |-> TRUE, rate_limit_reset_time |-> t + d]],
     idx |-> (idx + 1) % Len(keys)]

\* parse_retry_delay: the first pattern's number, or 60.0
parse_retry_delay(err) ==
    IF err.pattern THEN err.val ELSE default_retry_delay

\* calculate_backoff
calculate_backoff_NoneAtLast(a) ==
    IF a + 1 < max_retries THEN Min(base_delay * Pow2(a), max_delay) ELSE 0
calculate_backoff(a) == Min(base_delay * Pow2(a), max_delay)

\* "429" in error_str or "quota" in ... or "rate" in ...
IsRateLimitError_Broad(err) == err.kind # "none"
IsRateLimitError(err) == err.kind = "rate"

\* available_keys = [k for k in self.api_keys if not k.is_rate_limited]
AvailableKeys(keys) == {i \in KeyIdx(keys) : ~keys[i + 1].is_rate_limited}

\* min_wait = max(1.0, min(k.rate_limit_reset_time - time.time() ...))
MinWait_Longest(keys, t) ==
    Max(min_wait_floor,
        -SetMin({-(keys[i + 1].rate_limit_reset_time - t) : i \in KeyIdx(keys)}))
MinWait(keys, t) ==
    Max(min_wait_floor,
        SetMin({keys[i + 1].rate_limit_reset_time - t : i \in KeyIdx(keys)}))

\* for k in self.api_keys: if time.time() >= k.rate_limit_reset_time: ...
RearmExpired_All(keys, t) ==
    [i \in 1 .. Len(keys) |-> [keys[i] EXCEPT !.is_rate_limited = FALSE]]
RearmExpired(keys, t) ==
    [i \in 1 .. Len(keys) |->
        IF Expired(keys[i], t)
        THEN [keys[i] EXCEPT !.is_rate_limited = FALSE]
        ELSE keys[i]]


-----------------------------------------------------------------------------
(* Text.  A string is a sequence of characters. *)

CR == "\r"
LF == "\n"
SP == " "
Whitespace == {SP, CR, LF, "\t"}

\* all strings over C of length at most n
Strs(C, n) == UNION {[1 .. k -> C] : k \in 0 .. n}

\* sub occurs in s at position i
IsAt(s, sub, i) ==
    /\ i >= 1
    /\ i + Len(sub) - 1 <= Len(s)
    /\ \A j \in 1 .. Len(sub) : s[i + j - 1] = sub[j]

Occurrences(s, sub) == {i \in 1 .. (Len(s) - Len(sub) + 1) : IsAt(s, sub, i)}

\* `sub in s`
Contains(s, sub) == Occurrences(s, sub) # {}

\* s.replace(old, new, 1), old not empty
ReplaceFirst_KeepOld(s, old, new) ==
    IF ~Contains(s, old) THEN s
    ELSE LET i == SetMin(Occurrences(s, old))
         IN  SubSeq(s, 1, i - 1) \o new \o SubSeq(s, i, Len(s))
ReplaceFirst(s, old, new) ==
    IF ~Contains(s, old) THEN s
    ELSE LET i == SetMin(Occurrences(s, old))
         IN  SubSeq(s, 1, i - 1) \o new \o SubSeq(s, i + Len(old), Len(s))

\* s.replace('\r\n', '\n')
RECURSIVE NormalizeEOL(_)
NormalizeEOL(s) ==
    IF s = <<>> THEN <<>>
    ELSE IF Len(s) >= 2 /\ s[1] = CR /\ s[2] = LF
         THEN <<LF>> \o NormalizeEOL(SubSeq(s, 3, Len(s)))
         ELSE <<s[1]>> \o NormalizeEOL(Tail(s))

\* s.split('\n')
RECURSIVE SplitLines(_)
SplitLines(s) ==
    IF ~Contains(s, <<LF>>) THEN <<s>>
    ELSE LET i == SetMin(Occurrences(s, <<LF>>))
         IN  <<SubSeq(s, 1, i - 1)>> \o SplitLines(SubSeq(s, i + 1, Len(s)))

\* '\n'.join(lines)
RECURSIVE JoinLines(_)
JoinLines(ls) ==
    IF ls = <<>> THEN <<>>
    ELSE IF Len(ls) = 1 THEN ls[1]
    ELSE ls[1] \o <<LF>> \o JoinLines(Tail(ls))

\* line.strip()
RECURSIVE LStrip(_)
LStrip(l) == IF l # <<>> /\ l[1] \in Whitespace THEN LStrip(Tail(l)) ELSE l
RECURSIVE RStrip(_)
RStrip(l) ==
    IF l # <<>> /\ l[Len(l)] \in Whitespace
    THEN RStrip(SubSeq(l, 1, Len(l) - 1)) ELSE l
Strip(l) == RStrip(LStrip(l))

-----------------------------------------------------------------------------
(* The patch engine: EditAgent._apply_diff / agent.apply_diff and           *)
(* EditAgent._apply_multiple_diffs / agent.apply_multiple_diffs              *)

\* [line.strip() for line in search_block.split('\n') if line.strip()]
RECURSIVE NonBlankStripped(_)
NonBlankStripped(ls) ==
    IF ls = <<>> THEN <<>>
    ELSE (IF Strip(ls[1]) # <<>> THEN <<Strip(ls[1])>> ELSE <<>>)
            \o NonBlankStripped(Tail(ls))

\* sum(1 for a, b in zip(stripped_window, search_lines) if a == b), window at i
WindowMatches(olines, slines, i) ==
    Cardinality({k \in 1 .. Len(slines) : Strip(olines[i + k]) = slines[k]})

\* the for loop over the windows, from window i on; matches stand for the
\* score matches / len(search_lines)
RECURSIVE FuzzyLoop(_, _, _, _, _)
FuzzyLoop(olines, slines, i, best_start, best_matches) ==
    IF i > Len(olines) - Len(slines)
    THEN [start |-> best_start, matches |-> best_matches]
    ELSE LET mt == IF slines = <<>> THEN 0 ELSE WindowMatches(olines, slines, i)
         IN  IF mt > best_matches
             THEN FuzzyLoop(olines, slines, i + 1, i, mt)
             ELSE FuzzyLoop(olines, slines, i + 1, best_start, best_matches)

\* best_match_score >= 0.8
ScoreReaches_Seventy(matches, n) == n > 0 /\ matches * 10 >= 7 * n
ScoreReaches(matches, n) == n > 0 /\ matches * 10 >= 8 * n

\* `if not original_content: return replace_block, True`
FromEmpty_Normalized(replace_block) ==
    [content |-> NormalizeEOL(replace_block), matched |-> TRUE]
FromEmpty(replace_block) == [content |-> replace_block, matched |-> TRUE]

\* `if not search_block: return replace_block + original_content, True`
Prepend_After(original_content, replace_block) ==
    [content |-> original_content \o replace_block, matched |-> TRUE]
Prepend(original_content, replace_block) ==
    [content |-> replace_block \o original_content, matched |-> TRUE]

\* `return original_content, False`, original_content being the converted one
NoMatch_Stripped(original) == [content |-> Strip(original), matched |-> FALSE]
NoMatch(original) == [content |-> original, matched |-> FALSE]

\* _apply_diff(original_content, search_block, replace_block)
apply_diff(original_content, search_block, replace_block) ==
    IF original_content = <<>>
    THEN FromEmpty(replace_block)
    ELSE IF search_block = <<>>
    THEN Prepend(original_content, replace_block)
    ELSE LET original == NormalizeEOL(original_content)
             search == NormalizeEOL(search_block)
             replace == NormalizeEOL(replace_block)
         IN  IF Contains(original, search)
             THEN [content |-> ReplaceFirst(original, search, replace),
                   matched |-> TRUE]
             ELSE LET olines == SplitLines(original)
                      slines == NonBlankStripped(SplitLines(search))
                      best == FuzzyLoop(olines, slines, 0, 0 - 1, 0)
                  IN  IF ScoreReaches(best.matches, Len(slines)) /\ best.start >= 0
                      THEN [content |->
                               JoinLines(SubSeq(olines, 1, best.start)
                                   \o SplitLines(replace)
                                   \o SubSeq(olines, best.start + Len(slines) + 1,
                                             Len(olines))),
                            matched |-> TRUE]
                      ELSE NoMatch(original)

\* one pass of the for loop of _apply_multiple_diffs
ApplyChange_Pristine(original, content, failed, change) ==
    LET r == apply_diff(original, change.search, change.replace)
    IN  IF r.matched
        THEN [content |-> r.content, failed |-> failed]
        ELSE [content |-> content, failed |-> Append(failed, change)]
ApplyChange(original, content, failed, change) ==
    LET r == apply_diff(content, change.search, change.replace)
    IN  IF r.matched
        THEN [content |-> r.content, failed |-> failed]
        ELSE [content |-> content, failed |-> Append(failed, change)]

-----------------------------------------------------------------------------
(* The parts of the state a specification does not exercise stay as they    *)
(* are after construction.                                                  *)

\* no _apply_diff call yet
NoApply == [called |-> FALSE, original |-> <<>>, search |-> <<>>,
            replace |-> <<>>, content |-> <<>>, matched |-> FALSE]

PEIdle ==
    /\ pe_original = <<>>
    /\ pe_changes = <<>>
    /\ pe_idx = 0
    /\ pe_content = <<>>
    /\ pe_failed = <<>>
    /\ pe_last = NoApply

\* dict(): no key
EmptyDict == [q \in {} |-> <<>>]

\* self.current_plan = None
NoPlan == [kind |-> "None", understanding |-> "", tasks |-> <<>>,
           failed |-> FALSE]

\* what an operation returns when it returns no task result
NoResult == [success |-> FALSE, action |-> "none", has_content |-> FALSE,
             content |-> <<>>, has_summary |-> FALSE, summary |-> "",
             changes_applied |-> 0, changes_failed |-> 0,
             error |-> "", plan |-> NoPlan]

\* no operation yet.  stage is the stage agent execute_task handed the task
\* to; raised says that the operation ended in an exception instead of
\* returning; plans counts the calls of the planner the operation made;
\* cleared says that a reset found something to clear.
NoCall == [by |-> "none", op |-> "none", file |-> "", request |-> <<>>,
           design |-> FALSE, stage |-> "none", raised |-> FALSE,
           plans |-> 0, cleared |-> FALSE, calls |-> <<>>,
           guidelines |-> <<>>, result |-> NoResult]

\* no execute_task call is looked at alone
NoArgs == [via |-> "none"]

\* Orchestrator.__init__ / Agent.__init__
ORInit ==
    /\ context = <<>>
    /\ recent_files = EmptyDict
    /\ current_plan = NoPlan
    /\ last_call = NoCall
    /\ call_args = NoArgs

-----------------------------------------------------------------------------
(* RateLimiter.execute_with_retry, run by every caller of                    *)
(* BaseAgent._generate_with_retry / Agent._generate_with_retry.              *)
(*                                                                           *)
(* pc: "idle"    not inside execute_with_retry                               *)
(*     "attempt" at the top of the for loop body (line 142)                  *)
(*     "oracle"  inside func(): _configure_model has run, the blocking       *)
(*               model.generate_content call is under way                    *)
(*     "backoff" suspended in asyncio.sleep(backoff)          (line 187)     *)
(*     "wait"    suspended in asyncio.sleep(min_wait)         (line 174)     *)
(*     "returned" / "raised"  execute_with_retry is over                     *)
(*                                                                           *)
(* All callers are coroutines of one asyncio event loop.  A coroutine gives  *)
(* the loop up only in asyncio.sleep; generate_content is a blocking call.   *)
(* loop_owner is the coroutine that holds the loop.                          *)

NoEvent == [op |-> "none", by |-> NoCaller, key |-> 0, before |-> 0]

\* one oracle invocation: how it ended ("ok", "rate", "generic"), what the
\* loop did about it ("return", "rotate", "wait", "backoff"), the error raised
\* or the text answered
LogEntry(kind, how, err, text) ==
    [kind |-> kind, how |-> how, err |-> err, text |-> text]

Logged(c, l, e) == IF c \in observed THEN Append(l, e) ELSE l

InitCallers(obs, hor) ==
    /\ observed = obs
    /\ horizon = hor
    /\ now = 0
    /\ current_key_index = 0
    /\ loop_owner = NoCaller
    /\ pc = [c \in Callers |-> "idle"]
    /\ attempt = [c \in Callers |-> 0]
    /\ last_error = [c \in Callers |-> NoError]
    /\ wake_at = [c \in Callers |-> 0]
    /\ served = [c \in Callers |-> 0]
    /\ result = [c \in Callers |-> NoText]
    /\ log = [c \in Callers |-> <<>>]
    /\ ev = NoEvent

InitRL(obs, hor) ==
    /\ \E n \in 0 .. MaxKeys : api_keys = LoadApiKeys(n)
    /\ InitCallers(obs, hor)

\* the event loop may run coroutine c
LoopFree_Unserialized(c) == TRUE
LoopFree(c) == loop_owner \in {NoCaller, c}

\* time passes
Tick ==
    /\ now < horizon
    /\ now' = now + 1
    /\ UNCHANGED <<api_keys, current_key_index, loop_owner, pc, attempt,
                   last_error, wake_at, served, result, log>>
    /\ ev' = NoEvent
    /\ UNCHANGED <<observed, horizon, peVars, orVars>>

\* BaseAgent.__init__ / Agent.__init__: _configure_model() outside any call
Configure ==
    /\ loop_owner = NoCaller
    /\ LET g == get_current_key(api_keys, current_key_index, now)
       IN  /\ api_keys' = g.keys
           /\ current_key_index' = g.idx
           /\ ev' = [op |-> "current", by |-> NoCaller, key |-> g.key,
                     before |-> current_key_index]
    /\ UNCHANGED <<now, loop_owner, pc, attempt, last_error, wake_at, served,
                   result, log>>
    /\ UNCHANGED <<observed, horizon, peVars, orVars>>

\* execute_with_retry is entered: last_error = None, attempt = 0
Start(c) ==
    /\ pc[c] = "idle"
    /\ LoopFree(c)
    /\ pc' = [pc EXCEPT ![c] = "attempt"]
    /\ attempt' = [attempt EXCEPT ![c] = 0]
    /\ last_error' = [last_error EXCEPT ![c] = NoError]
    /\ loop_owner' = c
    /\ UNCHANGED <<now, api_keys, current_key_index, wake_at, served, result,
                   log>>
    /\ ev' = NoEvent
    /\ UNCHANGED <<observed, horizon, peVars, orVars>>

\* _do_generate up to the oracle call: self._configure_model()
Call(c) ==
    /\ pc[c] = "attempt"
    /\ LoopFree(c)
    /\ LET g == get_current_key(api_keys, current_key_index, now)
       IN  /\ api_keys' = g.keys
           /\ current_key_index' = g.idx
           /\ served' = [served EXCEPT ![c] = g.key]
           /\ ev' = [op |-> "current", by |-> c, key |-> g.key,
                     before |-> current_key_index]
    /\ pc' = [pc EXCEPT ![c] = "oracle"]
    /\ loop_owner' = c
    /\ UNCHANGED <<now, attempt, last_error, wake_at, result, log>>
    /\ UNCHANGED <<observed, horizon, peVars, orVars>>

\* the value execute_with_retry returns for the oracle's text
ReturnValue_Stale(c, text) == result[c]
ReturnValue(c, text) == text

\* the oracle answers: result = await func(); return result
OracleOk(c, text) ==
    /\ pc[c] = "oracle"
    /\ result' = [result EXCEPT ![c] = ReturnValue(c, text)]
    /\ log' = [log EXCEPT ![c] =
                 Logged(c, @, LogEntry("ok", "return", NoError, text))]
    /\ pc' = [pc EXCEPT ![c] = "returned"]
    /\ loop_owner' = NoCaller
    /\ UNCHANGED <<now, api_keys, current_key_index, attempt, last_error,
                   wake_at, served>>
    /\ ev' = NoEvent
    /\ UNCHANGED <<observed, horizon, peVars, orVars>>

\* the end of one pass of the for loop: the next attempt, or line 190
NextPc_Again(a) == "attempt"
NextPc_OneMore(a) == IF a + 1 < max_retries + 1 THEN "attempt" ELSE "raised"
NextPc(a) == IF a + 1 < max_retries THEN "attempt" ELSE "raised"

\* the oracle raises a rate-limit error: lines 152-181 up to the sleep
OracleRateLimited(c, err) ==
    /\ pc[c] = "oracle"
    /\ IsRateLimitError(err)
    /\ last_error' = [last_error EXCEPT ![c] = err]
    /\ LET m == mark_rate_limited(api_keys, current_key_index, now,
                                  parse_retry_delay(err))
       IN  /\ api_keys' = m.keys
           /\ current_key_index' = m.idx
           /\ ev' = [op |-> "mark", by |-> c, key |-> current_key_index,
                     before |-> current_key_index]
           /\ IF AvailableKeys(m.keys) # {}
              THEN \* continue: the next pass starts at once
                   /\ log' = [log EXCEPT ![c] =
                                Logged(c, @, LogEntry("rate", "rotate", err, NoText))]
                   /\ attempt' = [attempt EXCEPT ![c] = @ + 1]
                   /\ pc' = [pc EXCEPT ![c] = NextPc(attempt[c])]
                   /\ loop_owner' = IF NextPc(attempt[c]) = "raised"
                                    THEN NoCaller ELSE c
                   /\ UNCHANGED wake_at
              ELSE \* await asyncio.sleep(min_wait)
                   /\ log' = [log EXCEPT ![c] =
                                Logged(c, @, LogEntry("rate", "wait", err, NoText))]
                   /\ wake_at' = [wake_at EXCEPT ![c] = now + MinWait(m.keys, now)]
                   /\ pc' = [pc EXCEPT ![c] = "wait"]
                   /\ loop_owner' = NoCaller
                   /\ UNCHANGED attempt
    /\ UNCHANGED <<now, served, result>>
    /\ UNCHANGED <<observed, horizon, peVars, orVars>>

\* the oracle raises another error: lines 183-187 up to the sleep
OracleError(c, err) ==
    /\ pc[c] = "oracle"
    /\ ~IsRateLimitError(err)
    /\ last_error' = [last_error EXCEPT ![c] = err]
    /\ log' = [log EXCEPT ![c] =
                 Logged(c, @, LogEntry("generic", "backoff", err, NoText))]
    /\ wake_at' = [wake_at EXCEPT ![c] = now + calculate_backoff(attempt[c])]
    /\ pc' = [pc EXCEPT ![c] = "backoff"]
    /\ loop_owner' = NoCaller
    /\ UNCHANGED <<now, api_keys, current_key_index, attempt, served, result>>
    /\ ev' = NoEvent
    /\ UNCHANGED <<observed, horizon, peVars, orVars>>

\* asyncio.sleep(min_wait) is over: lines 176-181
WakeWait(c) ==
    /\ pc[c] = "wait"
    /\ LoopFree(c)
    /\ now >= wake_at[c]
    /\ api_keys' = RearmExpired(api_keys, now)
    /\ attempt' = [attempt EXCEPT ![c] = @ + 1]
    /\ pc' = [pc EXCEPT ![c] = NextPc(attempt[c])]
    /\ loop_owner' = IF NextPc(attempt[c]) = "raised" THEN NoCaller ELSE c
    /\ UNCHANGED <<now, current_key_index, last_error, result,
                   log>>
    /\ ev' = NoEvent
    /\ UNCHANGED <<observed, horizon, peVars, orVars>>
    /\ wake_at' = [wake_at EXCEPT ![c] = 0]
    /\ served' = [served EXCEPT ![c] = 0]

\* asyncio.sleep(backoff) is over: the for loop goes on
WakeBackoff(c) ==
    /\ pc[c] = "backoff"
    /\ LoopFree(c)
    /\ now >= wake_at[c]
    /\ attempt' = [attempt EXCEPT ![c] = @ + 1]
    /\ pc' = [pc EXCEPT ![c] = NextPc(attempt[c])]
    /\ loop_owner' = IF NextPc(attempt[c]) = "raised" THEN NoCaller ELSE c
    /\ UNCHANGED <<now, api_keys, current_key_index, last_error,
                   result, log>>
    /\ ev' = NoEvent
    /\ UNCHANGED <<observed, horizon, peVars, orVars>>
    /\ wake_at' = [wake_at EXCEPT ![c] = 0]
    /\ served' = [served EXCEPT ![c] = 0]

\* the caller got its text or its exception and goes on to its next request
Finish(c) ==
    /\ pc[c] \in {"returned", "raised"}
    /\ LoopFree(c)
    /\ pc' = [pc EXCEPT ![c] = "idle"]
    /\ attempt' = [attempt EXCEPT ![c] = 0]
    /\ last_error' = [last_error EXCEPT ![c] = NoError]
    /\ wake_at' = [wake_at EXCEPT ![c] = 0]
    /\ served' = [served EXCEPT ![c] = 0]
    /\ result' = [result EXCEPT ![c] = NoText]
    /\ log' = [log EXCEPT ![c] = <<>>]
    /\ UNCHANGED <<now, api_keys, current_key_index, loop_owner>>
    /\ ev' = NoEvent
    /\ UNCHANGED <<observed, horizon, peVars, orVars>>

\* `except Exception as e`: whatever the oracle raises
OracleErrors == RateErrors \cup GenericErrors

\* One caller at a time: the generate calls of one conversation, in sequence
Next ==
    \/ Tick
    \/ Configure
    \/ Start("c1")
    \/ Call("c1")
    \/ \E text \in Texts : OracleOk("c1", text)
    \/ \E err \in OracleErrors : OracleRateLimited("c1", err)
    \/ \E err \in OracleErrors : OracleError("c1", err)
    \/ WakeWait("c1")
    \/ WakeBackoff("c1")
    \/ Finish("c1")

Init == InitRL({"c1"}, MaxTime) /\ PEIdle /\ ORInit

Spec == Init /\ [][Next]_vars

\* Several conversations at once: coroutines of the one event loop
NextConc ==
    \/ Tick
    \/ Configure
    \/ \E c \in Callers : Start(c)
    \/ \E c \in Callers : Call(c)
    \/ \E c \in Callers : OracleOk(c, "t1")
    \/ \E c \in Callers, err \in RateErrors : OracleRateLimited(c, err)
    \/ \E c \in Callers : OracleError(c, [kind |-> "generic", pattern |-> FALSE, val |-> 1])
    \/ \E c \in Callers : WakeWait(c)
    \/ \E c \in Callers : WakeBackoff(c)

InitConc == InitRL({}, ConcMaxTime) /\ PEIdle /\ ORInit

SpecConc == InitConc /\ [][NextConc]_vars

\* the key pool as constructed with one key, no call under way
RLIdle == InitRL({}, 0) /\ api_keys = LoadApiKeys(1)

\* One generate call followed to its end.  asyncio.sleep(d) returns once d
\* seconds have gone by, however long that is: the clock moves to the time
\* the sleeping call wakes at.
Sleep(c) ==
    /\ pc[c] \in {"wait", "backoff"}
    /\ now < wake_at[c]
    /\ now' = wake_at[c]
    /\ ev' = NoEvent
    /\ UNCHANGED <<api_keys, current_key_index, loop_owner, pc, attempt,
                   last_error, wake_at, served, result, log>>
    /\ UNCHANGED <<observed, horizon, peVars, orVars>>

\* a rate-limit error whose text asks for more than max_delay seconds
SlowDown == [kind |-> "rate", pattern |-> TRUE, val |-> max_delay + 1]

\* the oracle answers the call it was given, one way or another
OracleAnswers(c) ==
    \/ \E text \in Texts : OracleOk(c, text)
    \/ \E err \in RateErrors \cup {SlowDown} : OracleRateLimited(c, err)
    \/ \E err \in GenericErrors : OracleError(c, err)

NextLive ==
    \/ Tick
    \/ Sleep("c1")
    \/ Configure
    \/ Start("c1")
    \/ Call("c1")
    \/ OracleAnswers("c1")
    \/ WakeWait("c1")
    \/ WakeBackoff("c1")

InitLive == InitRL({"c1"}, MaxTime) /\ PEIdle /\ ORInit

\* the event loop runs a coroutine that is ready, the awaited oracle call
\* completes, and a sleep ends when its time has gone by
FairLive ==
    /\ WF_vars(Call("c1"))
    /\ WF_vars(OracleAnswers("c1"))
    /\ WF_vars(Sleep("c1"))
    /\ WF_vars(WakeWait("c1"))
    /\ WF_vars(WakeBackoff("c1"))

SpecLive == InitLive /\ [][NextLive]_vars /\ FairLive

\* Startup: the process begins with no limiter (_rate_limiter = None) and an
\* environment naming n credentials; the first get_rate_limiter() constructs
\* the singleton, and only then can a generate call reach it
Environment(n) == [via |-> "environment", n |-> n]

get_rate_limiter ==
    /\ api_keys = <<>>
    /\ call_args.via = "environment"
    /\ api_keys' = LoadApiKeys(call_args.n)
    /\ current_key_index' = 0
    /\ UNCHANGED <<now, loop_owner, pc, attempt, last_error, wake_at, served,
                   result, log, ev>>
    /\ UNCHANGED <<observed, horizon, peVars, context, recent_files,
                   current_plan, last_call, call_args>>

\* the singleton exists: only then is there an object to call
Built == api_keys # <<>>

NextBoot ==
    \/ get_rate_limiter
    \/ Built /\ Tick
    \/ Built /\ Configure
    \/ Built /\ Start("c1")
    \/ Built /\ Call("c1")
    \/ Built /\ \E text \in Texts : OracleOk("c1", text)
    \/ Built /\ \E err \in RateErrors : OracleRateLimited("c1", err)
    \/ Built /\ \E err \in GenericErrors : OracleError("c1", err)
    \/ Built /\ WakeWait("c1")
    \/ Built /\ WakeBackoff("c1")
    \/ Built /\ Finish("c1")

InitBoot ==
    /\ api_keys = <<>>
    /\ InitCallers({"c1"}, ConcMaxTime)
    /\ PEIdle
    /\ context = <<>> /\ recent_files = EmptyDict /\ current_plan = NoPlan
    /\ last_call = NoCall
    /\ \E n \in 0 .. MaxKeys : call_args = Environment(n)

SpecBoot == InitBoot /\ [][NextBoot]_vars

-----------------------------------------------------------------------------
(* The patch engine as a state machine: the for loop of                      *)
(* _apply_multiple_diffs, one change per step                                *)

Chg(s, r) == [search |-> s, replace |-> r]

InitPatch(originals, changeLists) ==
    /\ pe_original \in originals
    /\ pe_changes \in changeLists
    /\ pe_idx = 0
    /\ pe_content = pe_original
    /\ pe_failed = <<>>
    /\ pe_last = NoApply

\* for change in changes: ... self._apply_diff(content, search, replace) ...
ApplyNext ==
    /\ pe_idx < Len(pe_changes)
    /\ LET change == pe_changes[pe_idx + 1]
           r == apply_diff(pe_content, change.search, change.replace)
           a == ApplyChange(pe_original, pe_content, pe_failed, change)
       IN  /\ pe_content' = a.content
           /\ pe_failed' = a.failed
           /\ pe_last' = [called |-> TRUE, original |-> pe_content,
                          search |-> change.search, replace |-> change.replace,
                          content |-> r.content, matched |-> r.matched]
    /\ pe_idx' = pe_idx + 1
    /\ UNCHANGED <<pe_original, pe_changes, rlVars, orVars>>

\* One _apply_diff call on every original, search and replace up to the bounds
PatchChars == {"a", CR, LF}

OneChangeLists ==
    {<<Chg(s, r)>> : s \in Strs(PatchChars, MaxSearchLen),
                     r \in Strs(PatchChars, MaxReplaceLen)}

NextApplyOne == ApplyNext

InitApplyOne ==
    RLIdle /\ ORInit /\ InitPatch(Strs(PatchChars, MaxOrigLen), OneChangeLists)

SpecApplyOne == InitApplyOne /\ [][NextApplyOne]_vars

\* _apply_multiple_diffs on lists of changes drawn from a pool
AllOriginals ==
    {<<>>, <<"a">>, <<"a", "b">>, <<"b", "a">>, <<"a", "a">>,
     <<"a", LF, "b">>, <<"a", CR, LF, "b">>}

ChangePool ==
    {Chg(<<"a">>, <<"b">>), Chg(<<"b">>, <<"a">>), Chg(<<"a">>, <<>>),
     Chg(<<>>, <<"b">>), Chg(<<"a", "b">>, <<"b">>),
     Chg(<<"b">>, <<"b", LF, "a">>), Chg(<<SP, "a">>, <<"b", "b">>)}

NextApplyAll == ApplyNext

InitApplyAll ==
    RLIdle /\ ORInit /\ InitPatch(AllOriginals, Strs(ChangePool, MaxChanges))

SpecApplyAll == InitApplyAll /\ [][NextApplyAll]_vars

\* One _apply_diff call on texts made of whole lines, with and without
\* surrounding blanks and blank lines
LinePool == {<<>>, <<"a">>, <<SP, "a">>, <<"b">>}

\* the texts of 1 .. n lines drawn from the pool
LineTexts(n) == {JoinLines(ls) : ls \in UNION {[1 .. k -> LinePool] : k \in 1 .. n}}

FuzzyReplaces == {<<"c">>, <<"c", LF, "c">>}

FuzzyChangeLists ==
    {<<Chg(s, r)>> : s \in LineTexts(MaxSearchLines), r \in FuzzyReplaces}

InitFuzzy ==
    RLIdle /\ ORInit /\ InitPatch(LineTexts(MaxOrigLines), FuzzyChangeLists)

NextFuzzy == ApplyNext

SpecFuzzy == InitFuzzy /\ [][NextFuzzy]_vars

\* One _apply_diff call whose search is long enough for a window to reach the
\* score 0.8 with a line that differs: originals of letters, searches of the
\* same letters indented (so that they are no substrings), or blank
MaxWindowLines == 5
WindowOriginals ==
    {JoinLines(ls) : ls \in UNION {[1 .. k -> {<<"a">>, <<"b">>}] :
                                      k \in 1 .. MaxWindowLines}}
WindowSearches ==
    {JoinLines(ls) :
        ls \in UNION {[1 .. k -> {<<SP, "a">>, <<SP, "b">>}] :
                         k \in 1 .. MaxWindowLines}}
    \cup {<<SP>>, <<LF>>, <<SP, "a", LF>>}
WindowChangeLists ==
    {<<Chg(s, <<SP, "c", LF, "c">>)>> : s \in WindowSearches}

InitWindow ==
    RLIdle /\ ORInit /\ InitPatch(WindowOriginals, WindowChangeLists)

NextWindow == ApplyNext

SpecWindow == InitWindow /\ [][NextWindow]_vars



-----------------------------------------------------------------------------
(* The session object.  services/agents/orchestrator.py has the Orchestrator *)
(* with its stage agents; services/agent.py has the Agent the HTTP routes    *)
(* use.  Both keep context, recent_files and current_plan, and each is one   *)
(* object per process: get_orchestrator() and get_agent() hand the same      *)
(* instance to every caller.  A generation call is taken by its outcome:     *)
(* execute_with_retry raised, or it returned a text that _parse_json turned  *)
(* into a dict.                                                              *)

Convs == {"A", "B"}                        \* independent conversations
Paths == {"src/App.jsx", "src/util.js"}    \* task.get('file')
UIPaths == {"src/App.jsx"}                 \* paths ending in .jsx or .tsx
Actions == {"create", "update"}            \* task.get('action', 'update')
FileContents == {<<>>, <<"a">>}            \* current_content sent by the caller
GenContents == {<<>>, <<"b">>}             \* file_content in the model's answer
SummaryOutcomes == {[has |-> FALSE, text |-> ""], [has |-> TRUE, text |-> "s1"]}
ModelChangeLists ==                        \* changes in the model's answer
    {<<>>, <<Chg(<<"a">>, <<"b">>)>>, <<Chg(<<"b">>, <<"a">>)>>}
Requests == {"r1"}                         \* user_request
Responses == {"yes"}                       \* user_response
Understandings == {"u1"}

TaskTypes == {"file", "command"}            \* task.get('type')

Tasks == [type : TaskTypes, action : Actions, file : Paths]

\* execute_with_retry raised
GenRaised == [kind |-> "raised", file_content |-> <<>>, changes |-> <<>>,
              fix_type |-> "", summary |-> [has |-> FALSE, text |-> ""]]

\* the dict _parse_json returned (the {error, raw} dict has none of the keys)
Parsed(fc, ch, ft, su) == [kind |-> "parsed", file_content |-> fc,
                           changes |-> ch, fix_type |-> ft, summary |-> su]

\* the text was well-formed JSON, but a non-empty array and no object:
\* json.loads gives a list, and _parse_json returns it as it is
GenList == [kind |-> "list", file_content |-> <<>>, changes |-> <<>>,
            fix_type |-> "", summary |-> [has |-> FALSE, text |-> ""]]

CreateOutcomes ==
    {GenRaised} \cup
    {Parsed(fc, <<>>, "", su) : fc \in GenContents, su \in SummaryOutcomes}
EditOutcomes ==
    {GenRaised} \cup
    {Parsed(<<>>, ch, "", su) : ch \in ModelChangeLists, su \in SummaryOutcomes}
ErrorOutcomes ==
    {GenRaised, GenList, Parsed(<<>>, <<>>, "full", [has |-> FALSE, text |-> ""])}
    \cup {Parsed(<<>>, ch, "diff", [has |-> FALSE, text |-> ""]) :
             ch \in ModelChangeLists}

\* what DesignAgent.enhance_design returns: a dict (the model's guidelines,
\* the {error, raw} dict of _parse_json or the fallback of the except
\* branch), or the non-empty list a JSON array is parsed to
DesignOutcomes == {"dict", "list"}

\* `action == 'create' or not current_content`
CreateRoute_ActionOnly(task, current_content) == task.action = "create"
CreateRoute(task, current_content) ==
    task.action = "create" \/ current_content = <<>>

\* what the generation call of the stage a task is routed to can give
StageOutcomes(task, current_content) ==
    IF CreateRoute(task, current_content) THEN CreateOutcomes ELSE EditOutcomes

\* the planner's answer: raised, {} , the {error, raw} dict, or a plan
\* the tasks of the plan the planner answers along with understanding u
TasksFor(u) == <<[id |-> 1, goal |-> u]>>
PlanDict(u) == [kind |-> "dict", understanding |-> u, tasks |-> TasksFor(u),
                failed |-> FALSE]
EmptyPlanDict == [kind |-> "empty", understanding |-> "", tasks |-> <<>>,
                  failed |-> FALSE]
FailedPlan == [kind |-> "dict", understanding |-> "Failed to create plan",
               tasks |-> <<>>,
               failed |-> TRUE]
PlanRaised == [kind |-> "raised", understanding |-> "", tasks |-> <<>>,
               failed |-> TRUE]
PlanOutcomes ==
    {PlanRaised, EmptyPlanDict, PlanDict("")} \cup
    {PlanDict(u) : u \in Understandings}

\* the planner answered with a non-empty JSON array
PlanList == [kind |-> "list", understanding |-> "", tasks |-> <<>>,
             failed |-> FALSE]
OrchPlanOutcomes == PlanOutcomes \cup {PlanList}

\* `not self.current_plan`
Falsy_EmptyOnly(plan) == plan.kind = "empty"
Falsy(plan) == plan.kind \in {"None", "empty"}

\* d[p] = v
Put(d, p, v) == [q \in (DOMAIN d) \cup {p} |-> IF q = p THEN v ELSE d[q]]

\* _apply_multiple_diffs(original_content, changes): (content, failed)
RECURSIVE MultiLoop(_, _, _, _)
MultiLoop(original, content, failed, changes) ==
    IF changes = <<>> THEN [content |-> content, failed |-> failed]
    ELSE LET a == ApplyChange(original, content, failed, Head(changes))
         IN  MultiLoop(original, a.content, a.failed, Tail(changes))
apply_multiple_diffs(original_content, changes) ==
    MultiLoop(original_content, original_content, <<>>, changes)

Failure(err) == [NoResult EXCEPT !.error = err]
Success(act, content, hs, sm) ==
    [NoResult EXCEPT !.success = TRUE, !.action = act, !.has_content = TRUE,
                     !.content = content, !.has_summary = hs, !.summary = sm]

\* the design stage runs before the create or the edit stage
DesignRuns_AnyFile(task) == task.type = "file"
DesignRuns(task) == task.type = "file" /\ task.file \in UIPaths

\* what the design stage hands to the stage after it
DesignOutcomesFor(task) == IF DesignRuns(task) THEN DesignOutcomes ELSE {"none"}

\* len(changes) - len(failed_changes)
ChangesApplied_All(changes, failed) == Len(changes)
ChangesApplied(changes, failed) == Len(changes) - Len(failed)

\* the success dict of an update: content and the two counts
Updated(changes, applied, hs, sm) ==
    [Success("update", applied.content, hs, sm) EXCEPT
        !.changes_applied = ChangesApplied(changes, applied.failed),
        !.changes_failed = Len(applied.failed)]

\* `except Exception as e` of a stage: the generation raised, or result.get
\* was called on a list
StageExcept(o) == o.kind \in {"raised", "list"}

\* CodeAgent.create_file
create_file(task, o) ==
    IF StageExcept(o) THEN Failure("exception")
    ELSE IF o.file_content = <<>>
    THEN Failure("Model failed to generate file content")
    ELSE Success("create", o.file_content, TRUE, o.summary.text)

\* EditAgent.update_file
update_file_EmptyOk(task, current_content, o) ==
    IF StageExcept(o) THEN Failure("exception")
    ELSE Updated(o.changes, apply_multiple_diffs(current_content, o.changes),
                 TRUE, o.summary.text)
update_file_NeedsOne(task, current_content, o) ==
    IF StageExcept(o) THEN Failure("exception")
    ELSE IF o.changes = <<>> THEN Failure("No changes provided")
    ELSE LET applied == apply_multiple_diffs(current_content, o.changes)
         IN  IF ChangesApplied(o.changes, applied.failed) = 0
             THEN Failure("No changes applied")
             ELSE Updated(o.changes, applied, TRUE, o.summary.text)
update_file(task, current_content, o) ==
    IF StageExcept(o) THEN Failure("exception")
    ELSE IF o.changes = <<>> THEN Failure("No changes provided")
    ELSE Updated(o.changes, apply_multiple_diffs(current_content, o.changes),
                 TRUE, o.summary.text)

\* guidelines_str of create_file / update_file, computed before the try:
\* design_guidelines.get raises on a non-empty list
GuidelinesRaise(task, d) == DesignRuns(task) /\ d = "list"

\* DesignAgent.enhance_design: the design_guidelines of what it returns; its
\* except branch returns a dict with an empty list and the error
enhance_design(d) == IF d = "dict" THEN <<"g1">> ELSE <<>>

\* guidelines_str of the stage that follows: "" without design_guidelines
GuidelinesStr(task, d) == IF DesignRuns(task) THEN enhance_design(d) ELSE <<>>

\* Orchestrator.execute_task
StageOf(task, current_content) ==
    IF CreateRoute(task, current_content) THEN "create" ELSE "edit"

\* the generation calls execute_task makes, in order
GenerationCalls(task, current_content, d) ==
    (IF DesignRuns(task) THEN <<"design">> ELSE <<>>)
        \o (IF GuidelinesRaise(task, d) THEN <<>>
            ELSE <<StageOf(task, current_content)>>)

\* self.current_plan = plan: the plan stored, old being the one it replaces
StorePlan_Merged(old, plan) == [plan EXCEPT !.tasks = old.tasks \o plan.tasks]
StorePlan(old, plan) == plan

\* PlanningAgent.plan
planning_agent_plan(o) == IF o.kind = "raised" THEN FailedPlan ELSE o

\* the generation call of the stage is reached only when guidelines_str did
\* not raise
StageOutcomesAfter(task, current_content, d) ==
    IF GuidelinesRaise(task, d) THEN {GenRaised}
    ELSE StageOutcomes(task, current_content)

\* Orchestrator.execute_task, "3. Update State"
\* the last MaxContext entries of the ledger l
LastEntries(l) ==
    IF Len(l) <= MaxContext THEN l ELSE SubSeq(l, Len(l) - MaxContext + 1, Len(l))

ContextAfter(ctx, file, r) ==
    IF r.success /\ r.has_summary
    THEN LastEntries(Append(ctx, [file |-> file, summary |-> r.summary]))
    ELSE ctx
RecentAfter_Always(rf, file, r) == Put(rf, file, r.content)
RecentAfter(rf, file, r) ==
    IF r.success /\ r.has_content THEN Put(rf, file, r.content) ELSE rf

\* Orchestrator.plan
OrchPlan(c, req, o) ==
    /\ LET plan == planning_agent_plan(o)
       IN  /\ current_plan' = StorePlan(current_plan, plan)
           /\ last_call' = [NoCall EXCEPT !.by = c, !.op = "plan",
                               !.plans = 1,
                               !.request = <<req>>,
                               !.result = [NoResult EXCEPT !.plan = plan]]
    /\ UNCHANGED <<context, recent_files, call_args, rlVars, peVars>>

\* d is what the design stage returned, when it runs
OrchExecuteTask(c, task, current_content, d, o) ==
    /\ LET stage == StageOf(task, current_content)
           call == [NoCall EXCEPT !.by = c, !.op = "execute_task",
                                  !.file = task.file,
                                  !.design = DesignRuns(task),
                                  !.stage = stage,
                                  !.calls = GenerationCalls(task,
                                                current_content, d),
                                  !.guidelines = GuidelinesStr(task, d)]
       IN  IF GuidelinesRaise(task, d)
           THEN /\ last_call' = [call EXCEPT !.raised = TRUE]
                /\ UNCHANGED <<context, recent_files>>
           ELSE LET r == IF stage = "create"
                         THEN create_file(task, o)
                         ELSE update_file(task, current_content, o)
                IN  /\ context' = ContextAfter(context, task.file, r)
                    /\ recent_files' = RecentAfter(recent_files, task.file, r)
                    /\ last_call' = [call EXCEPT !.result = r]
    /\ UNCHANGED <<current_plan, call_args, rlVars, peVars>>

\* ErrorAgent.analyze_error
analyze_error(o) ==
    IF o.kind = "raised"
    THEN [kind |-> "dict", fix_type |-> "none", changes |-> <<>>]
    ELSE [kind |-> IF o.kind = "list" THEN "list" ELSE "dict",
          fix_type |-> o.fix_type, changes |-> o.changes]

\* Orchestrator.handle_error: what it returns
handle_error(analysis, current_content) ==
    IF analysis.fix_type = "diff"
    THEN LET applied == apply_multiple_diffs(current_content, analysis.changes)
         IN  [Success("fix", applied.content, FALSE, "") EXCEPT
                 !.changes_applied =
                     ChangesApplied(analysis.changes, applied.failed)]
    ELSE Failure("Could not generate fix")

\* recent_files once handle_error has returned r for file: there is no
\* assignment to self.recent_files in handle_error
RecentAfterFix(rf, file, r) == rf

\* Orchestrator.handle_error
\* analysis.get('fix_type') on a list raises
OrchHandleError(c, file, current_content, o) ==
    /\ LET analysis == analyze_error(o)
           call == [NoCall EXCEPT !.by = c, !.op = "handle_error",
                                  !.file = file]
       IN  IF analysis.kind = "list"
           THEN /\ last_call' = [call EXCEPT !.raised = TRUE]
                /\ UNCHANGED recent_files
           ELSE LET r == handle_error(analysis, current_content)
                IN  /\ recent_files' = RecentAfterFix(recent_files, file, r)
                    /\ last_call' = [call EXCEPT !.result = r]
    /\ UNCHANGED <<context, current_plan, call_args, rlVars, peVars>>

\* Orchestrator.handle_clarification
\* self.current_plan.get('understanding', '') on a list raises
OrchHandleClarification(c, resp, o) ==
    /\ IF Falsy(current_plan)
       THEN /\ last_call' = [NoCall EXCEPT !.by = c, !.op = "clarify",
                                !.result = Failure("No active plan")]
            /\ UNCHANGED current_plan
       ELSE IF current_plan.kind = "list"
       THEN /\ last_call' = [NoCall EXCEPT !.by = c, !.op = "clarify",
                                !.raised = TRUE]
            /\ UNCHANGED current_plan
       ELSE LET plan == planning_agent_plan(o)
            IN  /\ current_plan' = StorePlan(current_plan, plan)
                /\ last_call' = [NoCall EXCEPT !.by = c, !.op = "clarify",
                                    !.plans = 1,
                                    !.request = <<current_plan.understanding,
                                                  "User clarification", resp>>,
                                    !.result = [NoResult EXCEPT !.plan = plan]]
    /\ UNCHANGED <<context, recent_files, call_args, rlVars, peVars>>

\* the session object holds something a reset clears
HoldsState ==
    context # <<>> \/ recent_files # EmptyDict \/ current_plan # NoPlan

\* Orchestrator.reset
OrchReset_KeepPlan(c) ==
    /\ context' = <<>>
    /\ recent_files' = EmptyDict
    /\ UNCHANGED current_plan
    /\ last_call' = [NoCall EXCEPT !.by = c, !.op = "reset",
                                   !.cleared = HoldsState]
    /\ UNCHANGED <<call_args, rlVars, peVars>>
OrchReset(c) ==
    /\ context' = <<>>
    /\ recent_files' = EmptyDict
    /\ current_plan' = NoPlan
    /\ last_call' = [NoCall EXCEPT !.by = c, !.op = "reset",
                                   !.cleared = HoldsState]
    /\ UNCHANGED <<call_args, rlVars, peVars>>

NextOrch ==
    \/ \E req \in Requests, o \in OrchPlanOutcomes : OrchPlan("A", req, o)
    \/ \E task \in Tasks, cc \in FileContents :
          \E d \in DesignOutcomesFor(task) :
              \E o \in StageOutcomesAfter(task, cc, d) :
                  OrchExecuteTask("A", task, cc, d, o)
    \/ \E file \in Paths, cc \in FileContents, o \in ErrorOutcomes :
          OrchHandleError("A", file, cc, o)
    \/ \E resp \in Responses, o \in OrchPlanOutcomes :
          OrchHandleClarification("A", resp, o)
    \/ OrchReset("A")

InitOrch == RLIdle /\ PEIdle /\ ORInit

SpecOrch == InitOrch /\ [][NextOrch]_vars

-----------------------------------------------------------------------------
(* The HTTP routes: every request does agent = get_agent() and calls the     *)
(* Agent.  c is the conversation the request belongs to; the request carries *)
(* no trace of it and get_agent() takes no argument.                         *)

\* Agent._execute_create_task
execute_create_task(task, o) ==
    IF StageExcept(o) THEN Failure("exception")
    ELSE Success("create", o.file_content, o.summary.has, o.summary.text)

\* Agent._execute_diff_task
execute_diff_task(task, current_content, o) ==
    IF StageExcept(o) THEN Failure("exception")
    ELSE IF o.changes = <<>> THEN Failure("No changes provided")
    ELSE Updated(o.changes, apply_multiple_diffs(current_content, o.changes),
                 o.summary.has, o.summary.text)

\* POST /plan: create_plan -> Agent.plan
create_plan(c, req, o) ==
    /\ IF o.kind = "raised"
       THEN /\ UNCHANGED current_plan
            /\ last_call' = [NoCall EXCEPT !.by = c, !.op = "plan",
                                !.plans = 1,
                                !.request = <<req>>,
                                !.result = [NoResult EXCEPT !.plan = FailedPlan]]
       ELSE /\ current_plan' = StorePlan(current_plan, o)
            /\ last_call' = [NoCall EXCEPT !.by = c, !.op = "plan",
                                !.plans = 1,
                                !.request = <<req>>,
                                !.result = [NoResult EXCEPT !.plan = o]]
    /\ UNCHANGED <<context, recent_files, call_args, rlVars, peVars>>

\* POST /execute-task: execute_task -> Agent.execute_task
execute_task(c, task, current_content, o) ==
    /\ LET stage == StageOf(task, current_content)
           r == IF stage = "create"
                THEN execute_create_task(task, o)
                ELSE execute_diff_task(task, current_content, o)
       IN  /\ context' = ContextAfter(context, task.file, r)
           /\ recent_files' = RecentAfter(recent_files, task.file, r)
           /\ last_call' = [NoCall EXCEPT !.by = c, !.op = "execute_task",
                               !.file = task.file, !.stage = stage,
                               !.result = r]
    /\ UNCHANGED <<current_plan, call_args, rlVars, peVars>>

\* POST /clarify: handle_clarification -> Agent.handle_clarification
handle_clarification(c, resp, o) ==
    /\ IF Falsy(current_plan)
       THEN /\ last_call' = [NoCall EXCEPT !.by = c, !.op = "clarify",
                                !.result = Failure("No active plan")]
            /\ UNCHANGED current_plan
       ELSE LET req == <<current_plan.understanding, "User clarification", resp>>
            IN  IF o.kind = "raised"
                THEN /\ UNCHANGED current_plan
                     /\ last_call' = [NoCall EXCEPT !.by = c, !.op = "clarify",
                                         !.plans = 1,
                                         !.request = req,
                                         !.result = [NoResult EXCEPT !.plan = FailedPlan]]
                ELSE /\ current_plan' = StorePlan(current_plan, o)
                     /\ last_call' = [NoCall EXCEPT !.by = c, !.op = "clarify",
                                         !.plans = 1,
                                         !.request = req,
                                         !.result = [NoResult EXCEPT !.plan = o]]
    /\ UNCHANGED <<context, recent_files, call_args, rlVars, peVars>>

\* POST /reset: reset_agent -> Agent.reset
reset_agent(c) ==
    /\ context' = <<>>
    /\ recent_files' = EmptyDict
    /\ current_plan' = NoPlan
    /\ last_call' = [NoCall EXCEPT !.by = c, !.op = "reset",
                                   !.cleared = HoldsState]
    /\ UNCHANGED <<call_args, rlVars, peVars>>

\* get_agent(): what a request of conversation c reads and writes is the
\* state of the one Agent of the process
SessionSeenBy(c) == <<context, recent_files, current_plan>>

NextRoutes ==
    \/ \E c \in Convs, req \in Requests, o \in PlanOutcomes : create_plan(c, req, o)
    \/ \E c \in Convs, task \in Tasks, cc \in FileContents :
          \E o \in StageOutcomes(task, cc) : execute_task(c, task, cc, o)
    \/ \E c \in Convs, resp \in Responses, o \in PlanOutcomes :
          handle_clarification(c, resp, o)
    \/ \E c \in Convs : reset_agent(c)

InitRoutes == RLIdle /\ PEIdle /\ ORInit

SpecRoutes == InitRoutes /\ [][NextRoutes]_vars

\* POST /generate: generate_code plans, then runs the tasks of the plan one
\* after the other, handing each the content its files dict holds for the
\* task's path.  call_args is the request as it goes: the files dict, the
\* tasks of the plan, and for each task run the content given and the result.
MaxTasks == 2
GenTasks == {t \in Tasks : t.type = "file"}
GenTaskLists == UNION {[1 .. n -> GenTasks] : n \in 0 .. MaxTasks}
GenFiles == [Paths -> FileContents]          \* normalize_files(currentFiles)
GenPlans ==
    {[kind |-> k, tasks |-> ts] : k \in {"tasks"}, ts \in GenTaskLists}
        \cup {[kind |-> "clarification", tasks |-> <<>>],
              [kind |-> "raised", tasks |-> <<>>]}
Quiet == [has |-> FALSE, text |-> ""]
GenAnswers(task, current_content) ==
    IF CreateRoute(task, current_content)
    THEN {GenRaised, Parsed(<<"b">>, <<>>, "", Quiet), Parsed(<<>>, <<>>, "", Quiet)}
    ELSE {GenRaised, Parsed(<<>>, <<>>, "", Quiet),
          Parsed(<<>>, <<Chg(<<"a">>, <<"b">>)>>, "", Quiet),
          Parsed(<<>>, <<Chg(<<"a">>, <<>>)>>, "", Quiet)}

GenRequest(files) ==
    [via |-> "generate", stored |-> files, files |-> files, phase |-> "plan",
     tasks |-> <<>>, given |-> <<>>, results |-> <<>>]

\* plan = await agent.plan(last_message, files), and the return when the
\* plan asks for clarification
GeneratePlan(plan) ==
    /\ call_args.via = "generate"
    /\ call_args.phase = "plan"
    /\ current_plan' = IF plan.kind = "raised" THEN current_plan
                       ELSE [kind |-> "dict", understanding |-> "u1",
                             tasks |-> plan.tasks, failed |-> FALSE]
    /\ call_args' = [call_args EXCEPT
                        !.phase = IF plan.kind = "clarification"
                                  THEN "returned" ELSE "tasks",
                        !.tasks = plan.tasks]
    /\ last_call' = [NoCall EXCEPT !.by = "A", !.op = "plan", !.plans = 1]
    /\ UNCHANGED <<context, recent_files, rlVars, peVars>>

\* files[result['file']] = result['content'], under
\* result.get('success') and result.get('content')
FilesAfter(files, file, r) ==
    IF r.success /\ r.content # <<>> THEN Put(files, file, r.content) ELSE files

\* one pass of `for task in plan.get('tasks', [])`
GenerateTask ==
    /\ call_args.via = "generate"
    /\ call_args.phase = "tasks"
    /\ Len(call_args.results) < Len(call_args.tasks)
    /\ LET task == call_args.tasks[Len(call_args.results) + 1]
           current_content == call_args.files[task.file]
       IN  \E o \in GenAnswers(task, current_content) :
             LET stage == StageOf(task, current_content)
                 r == IF stage = "create"
                      THEN execute_create_task(task, o)
                      ELSE execute_diff_task(task, current_content, o)
             IN  /\ context' = ContextAfter(context, task.file, r)
                 /\ recent_files' = RecentAfter(recent_files, task.file, r)
                 /\ last_call' = [NoCall EXCEPT !.by = "A",
                                     !.op = "execute_task",
                                     !.file = task.file, !.stage = stage,
                                     !.result = r]
                 /\ call_args' = [call_args EXCEPT
                        !.files = FilesAfter(call_args.files, task.file, r),
                        !.given = Append(@, current_content),
                        !.results = Append(@, r)]
    /\ UNCHANGED <<current_plan, rlVars, peVars>>

\* return JSONResponse({type: execution, plan, results})
GenerateReturn ==
    /\ call_args.via = "generate"
    /\ call_args.phase = "tasks"
    /\ Len(call_args.results) = Len(call_args.tasks)
    /\ call_args' = [call_args EXCEPT !.phase = "returned"]
    /\ UNCHANGED <<context, recent_files, current_plan, last_call, rlVars,
                   peVars>>

NextGenerate ==
    \/ \E plan \in GenPlans : GeneratePlan(plan)
    \/ GenerateTask
    \/ GenerateReturn

InitGenerate ==
    /\ RLIdle /\ PEIdle
    /\ context = <<>>
    /\ recent_files = EmptyDict
    /\ current_plan = NoPlan
    /\ last_call = NoCall
    /\ \E files \in GenFiles : call_args = GenRequest(files)

SpecGenerate == InitGenerate /\ [][NextGenerate]_vars

-----------------------------------------------------------------------------
(* One execute_task call on a fresh session object, looked at alone: the     *)
(* arguments are kept in call_args so that what the call returned can be set *)
(* against what it was given.  via tells the Orchestrator from the Agent.    *)

\* changes in the model's answer: up to MaxChanges search/replace blocks
StageChangePool == {Chg(<<"a">>, <<"b">>), Chg(<<"b">>, <<"a">>)}
StageChangeLists ==
    UNION {[1 .. n -> StageChangePool] : n \in 0 .. MaxChanges}

StageCreateOutcomes == CreateOutcomes \cup {GenList}
StageEditOutcomes ==
    {GenRaised, GenList} \cup
    {Parsed(<<>>, ch, "", su) : ch \in StageChangeLists, su \in SummaryOutcomes}

StageErrorOutcomes ==
    {GenRaised, GenList, Parsed(<<>>, <<>>, "full", [has |-> FALSE, text |-> ""])}
    \cup {Parsed(<<>>, ch, "diff", [has |-> FALSE, text |-> ""]) :
             ch \in StageChangeLists}

\* what the design stage comes to: a dict, a list, or a failed generation
StageDesignOutcomesFor(task) ==
    IF DesignRuns(task) THEN DesignOutcomes \cup {"failed"} ELSE {"none"}

\* the arguments of the call and what the model answers during it; for
\* handle_error the task stands for the file_path argument
StageArgs ==
    {a \in [via : {"orchestrator", "agent", "error"}, task : Tasks,
            current_content : FileContents,
            d : DesignOutcomes \cup {"none", "failed"},
            o : StageCreateOutcomes \cup StageEditOutcomes
                    \cup StageErrorOutcomes] :
        /\ a.d \in (IF a.via = "orchestrator" THEN StageDesignOutcomesFor(a.task)
                                               ELSE {"none"})
        /\ a.via = "error" => (a.task.action = "update" /\ a.task.type = "file")
        /\ a.o \in (IF a.via = "error"
                    THEN StageErrorOutcomes
                    ELSE IF a.via = "orchestrator" /\ GuidelinesRaise(a.task, a.d)
                    THEN {GenRaised}
                    ELSE IF CreateRoute(a.task, a.current_content)
                    THEN StageCreateOutcomes
                    ELSE StageEditOutcomes)}

\* Orchestrator.execute_task(task, current_content)
StageOrchestrator ==
    /\ call_args.via = "orchestrator"
    /\ last_call.op = "none"
    /\ OrchExecuteTask("A", call_args.task, call_args.current_content,
                       call_args.d, call_args.o)

\* Agent.execute_task(task, current_content)
StageAgent ==
    /\ call_args.via = "agent"
    /\ last_call.op = "none"
    /\ execute_task("A", call_args.task, call_args.current_content,
                    call_args.o)

\* Orchestrator.handle_error(error, file_path, current_content, context)
StageError ==
    /\ call_args.via = "error"
    /\ last_call.op = "none"
    /\ OrchHandleError("A", call_args.task.file, call_args.current_content,
                       call_args.o)

NextStage == StageOrchestrator \/ StageAgent \/ StageError

InitStage ==
    /\ RLIdle /\ PEIdle
    /\ context = <<>>
    /\ recent_files = EmptyDict
    /\ current_plan = NoPlan
    /\ last_call = NoCall
    /\ call_args \in StageArgs

SpecStage == InitStage /\ [][NextStage]_vars

-----------------------------------------------------------------------------
(* Properties of the key pool and of execute_with_retry *)

\* at time t the cooldown that the latest mark_rate_limited gave key i is
\* still running
InCooldown(keys, i, t) == t < keys[i + 1].rate_limit_reset_time

KindsOf(l) == [i \in 1 .. Len(l) |-> l[i].kind]
HowsOf(l) == [i \in 1 .. Len(l) |-> l[i].how]
CountHow(l, h) == Cardinality({i \in 1 .. Len(l) : l[i].how = h})

\* C1: Key Pool selection.  Whenever get_current_key returns a key whose
\* cooldown (set by the latest mark_rate_limited on it) is still running,
\* every key of the pool is in its cooldown; and a key whose cooldown is over
\* is returned as soon as the cursor stands on it.
C1_KeyPoolSelection ==
    ev.op = "current" =>
        /\ InCooldown(api_keys, ev.key, now)
              => \A j \in KeyIdx(api_keys) : InCooldown(api_keys, j, now)
        /\ now >= api_keys[ev.before + 1].rate_limit_reset_time
              => ev.key = ev.before

\* a key marked earlier is skipped while it cools down, another one is returned
C1_Witness ==
    /\ Len(api_keys) >= 2
    /\ ev.op = "current"
    /\ ev.key # ev.before
    /\ InCooldown(api_keys, ev.before, now)
    /\ ~InCooldown(api_keys, ev.key, now)
    /\ api_keys[ev.key + 1].rate_limit_reset_time > 0

\* C2: Generation Client success path.  If the oracle fails with generic
\* errors on the first i-1 invocations (i <= 3) and answers on invocation i,
\* the call has returned, what it returned is the text of invocation i, and
\* invocation i is the last one; after fewer than 3 generic failures the call
\* has not given up.
C2_SuccessPath ==
    \A c \in observed :
        /\ \A i \in 1 .. Len(log[c]) :
              (log[c][i].kind = "ok" /\ \A j \in 1 .. (i - 1) : log[c][j].kind = "generic")
                 => /\ i <= 3
                    /\ Len(log[c]) = i
                    /\ pc[c] = "returned"
                    /\ result[c] = log[c][i].text
        /\ (Len(log[c]) < 3 /\ \A j \in 1 .. Len(log[c]) : log[c][j].kind = "generic")
              => pc[c] # "raised"

\* two generic failures, then the third invocation answers
C2_Witness ==
    \E c \in observed :
        /\ KindsOf(log[c]) = <<"generic", "generic", "ok">>
        /\ pc[c] = "returned"
        /\ result[c] = "t2"

\* C3: generate fails only after the attempt budget is exhausted: when it has
\* raised, exactly max_retries = 3 oracle invocations were made, all of them
\* failed, and the error raised (last_error) is the error of the last one.
C3_RaisesOnlyWhenExhausted ==
    \A c \in observed :
        pc[c] = "raised" =>
            /\ Len(log[c]) = 3
            /\ \A i \in 1 .. Len(log[c]) : log[c][i].kind # "ok"
            /\ last_error[c] = log[c][Len(log[c])].err

\* three failures of different kinds, the last error is the one raised
C3_Witness ==
    \E c \in observed :
        /\ pc[c] = "raised"
        /\ Len(log[c]) = 3
        /\ log[c][1].err # log[c][3].err
        /\ log[c][2].err # log[c][3].err
        /\ last_error[c] = log[c][3].err

\* C4: rotations to an available key are not counted against the attempt
\* budget: a call whose failures were generic errors and rotations gives up
\* only after 3 generic failures, however many rotations happened in between.
C4_RotationNotCounted ==
    \A c \in observed :
        (pc[c] = "raised" /\ \A i \in 1 .. Len(log[c]) : log[c][i].how \in {"rotate", "backoff"})
            => CountHow(log[c], "backoff") = 3


\* the soonest rate_limit_reset_time over all keys
SoonestReset(keys) ==
    SetMin({keys[i].rate_limit_reset_time : i \in 1 .. Len(keys)})

\* every key is limited, one resets at t+2 and the other at t+5, and caller c
\* is inside an oracle invocation
TwoFiveScenario(c) ==
    /\ pc[c] = "oracle"
    /\ Len(api_keys) = 2
    /\ \A i \in 1 .. 2 : api_keys[i].is_rate_limited
    /\ {api_keys[i].rate_limit_reset_time : i \in 1 .. 2} = {now + 2, now + 5}

\* C5 as stated: a rate-limit failure that leaves every key limited sleeps
\* until the soonest resetAt (at least 1 s), then re-arms the keys whose
\* cooldown has elapsed and retries; with resets at t+2 and t+5 the call
\* blocks at least 2 s and less than 5 s.
C5_AsStated ==
    [][\A c \in Callers :
         /\ (pc[c] = "oracle" /\ pc'[c] = "wait")
               => wake_at'[c] = Max(now + 1, SoonestReset(api_keys'))
         /\ (pc[c] = "wait" /\ pc'[c] # "wait")
               => /\ \A i \in 1 .. Len(api_keys) :
                        now >= api_keys[i].rate_limit_reset_time
                           => ~api_keys'[i].is_rate_limited
                  /\ pc'[c] = "attempt"
         /\ (TwoFiveScenario(c) /\ pc'[c] = "wait")
               => wake_at'[c] - now \in 2 .. 4
      ]_vars

\* C5 (amended): a rate-limit failure that leaves every key limited first
\* gives the failing key resetAt = now + the parsed delay, then sleeps until
\* the soonest resetAt over all keys, at least 1 s; on waking, every key whose
\* cooldown has elapsed is re-armed and the call retries if an attempt of the
\* budget is left, and raises otherwise; with resets at t+2 and t+5 and a
\* failure carrying retry-after d, the call blocks max(1, min(d, 5)) s.
C5_WaitForSoonestReset ==
    [][\A c \in Callers :
         /\ (pc[c] = "oracle" /\ pc'[c] = "wait")
               => /\ wake_at'[c] = Max(now + 1, SoonestReset(api_keys'))
                  /\ api_keys'[served[c] + 1].rate_limit_reset_time
                        = now + parse_retry_delay(last_error'[c])
         /\ (pc[c] = "wait" /\ pc'[c] # "wait")
               => /\ now >= wake_at[c]
                  /\ \A i \in 1 .. Len(api_keys) :
                        now >= api_keys[i].rate_limit_reset_time
                           => ~api_keys'[i].is_rate_limited
                  /\ pc'[c] = IF attempt[c] + 1 < 3 THEN "attempt" ELSE "raised"
         /\ (TwoFiveScenario(c) /\ pc'[c] = "wait")
               => wake_at'[c] - now
                     = Max(1, Min(parse_retry_delay(last_error'[c]), 5))
      ]_vars

\* both keys were limited, the failing call got the default 60 s for its key
\* and sleeps the 5 s the other key still needs
C5_Witness ==
    \E c \in Callers :
        /\ pc[c] = "wait"
        /\ ev.op = "mark" /\ ev.by = c
        /\ Len(api_keys) = 2
        /\ api_keys[ev.key + 1].rate_limit_reset_time = now + 60
        /\ wake_at[c] = now + 5
        /\ \E d \in Callers \ {c} : pc[d] = "wait"

\* C6: the key pool under concurrent generate calls.  A rate-limit failure
\* marks the key that was configured for the failing call, and a caller is
\* handed a key whose cooldown is still running only when every key's is.
C6_PoolSafeUnderConcurrency ==
    /\ ev.op = "mark" => ev.key = served[ev.by]
    /\ (ev.op = "current" /\ ev.by \in Callers)
          => /\ served[ev.by] = ev.key
             /\ InCooldown(api_keys, ev.key, now)
                   => \A j \in KeyIdx(api_keys) : InCooldown(api_keys, j, now)

\* a failure is handled while another call is suspended in the middle of
\* its own retry loop, on a key the cursor had to move to
C6_Witness ==
    /\ ev.op = "mark"
    /\ ev.key = served[ev.by]
    /\ ev.key # 0
    /\ \E d \in Callers \ {ev.by} : pc[d] \in {"wait", "backoff"} /\ attempt[d] > 0

-----------------------------------------------------------------------------
(* Properties of the patch engine *)

NoCRLF(s) == ~Contains(s, <<CR, LF>>)

\* s with the n characters at position i replaced by new, the rest in place
SpliceAt(s, i, n, new) == SubSeq(s, 1, i - 1) \o new \o SubSeq(s, i + n, Len(s))

\* the _apply_diff call just made had a non-empty search that occurs
\* verbatim exactly once in its original
ExactlyOnce(l) ==
    /\ l.called
    /\ l.search # <<>>
    /\ Cardinality(Occurrences(l.original, l.search)) = 1

\* C9 as stated: whenever search is non-empty and occurs verbatim exactly
\* once in original, the call returns matched = true and original with that
\* occurrence replaced by replace, every other character in place, originals
\* with CRLF line endings included.
C9_AsStated ==
    ExactlyOnce(pe_last) =>
        /\ pe_last.matched
        /\ pe_last.content =
              SpliceAt(pe_last.original,
                       SetMin(Occurrences(pe_last.original, pe_last.search)),
                       Len(pe_last.search), pe_last.replace)

\* C9 amended: (a) when neither original nor replace holds a CRLF pair, a
\* non-empty search that occurs verbatim exactly once is matched and the
\* result is original with that occurrence replaced by replace, every other
\* character in place; (b) in general the three strings are compared after
\* CRLF -> LF: when the converted search occurs in the converted original the
\* call is matched and returns the converted original with the first such
\* occurrence replaced by the converted replace.
C9_ExactMatch ==
    LET l == pe_last
        o == NormalizeEOL(l.original)
        s == NormalizeEOL(l.search)
        r == NormalizeEOL(l.replace)
    IN  /\ (ExactlyOnce(l) /\ NoCRLF(l.original) /\ NoCRLF(l.replace)) =>
              /\ l.matched
              /\ l.content =
                    SpliceAt(l.original,
                             SetMin(Occurrences(l.original, l.search)),
                             Len(l.search), l.replace)
        /\ (l.called /\ l.original # <<>> /\ l.search # <<>> /\ Contains(o, s)) =>
              /\ l.matched
              /\ l.content = SpliceAt(o, SetMin(Occurrences(o, s)), Len(s), r)

\* C9 witness: a call whose search occurs exactly once, inside a longer
\* original that holds a line feed, no CRLF involved, and whose result
\* differs from the original
C9_Witness ==
    /\ ExactlyOnce(pe_last)
    /\ NoCRLF(pe_last.original) /\ NoCRLF(pe_last.replace)
    /\ Contains(pe_last.original, <<LF>>)
    /\ Len(pe_last.original) > Len(pe_last.search)
    /\ pe_last.matched
    /\ pe_last.content # pe_last.original

\* threading _apply_diff over the changes cs, from content o
RECURSIVE ThreadContent(_, _)
ThreadContent(o, cs) ==
    IF cs = <<>> THEN o
    ELSE LET r == apply_diff(o, Head(cs).search, Head(cs).replace)
         IN  ThreadContent(IF r.matched THEN r.content ELSE o, Tail(cs))

\* the changes of cs that _apply_diff does not match while threading from o
RECURSIVE ThreadFailed(_, _)
ThreadFailed(o, cs) ==
    IF cs = <<>> THEN <<>>
    ELSE LET r == apply_diff(o, Head(cs).search, Head(cs).replace)
         IN  (IF r.matched THEN <<>> ELSE <<Head(cs)>>)
                \o ThreadFailed(IF r.matched THEN r.content ELSE o, Tail(cs))

\* C10: after any number of passes of the loop, content is the result of
\* threading _apply_diff over the changes gone through, in input order, each
\* matched result being the input of the next and an unmatched change leaving
\* the content as it was, and failed is exactly the unmatched changes in
\* input order.
C10_SequentialFold ==
    LET done == SubSeq(pe_changes, 1, pe_idx)
    IN  /\ pe_content = ThreadContent(pe_original, done)
        /\ pe_failed = ThreadFailed(pe_original, done)

\* C10 witness: the loop is over two changes; the first rewrote the text the
\* second searches for, so the second, whose search occurs in the pristine
\* original, is the one failed change
C10_Witness ==
    /\ pe_idx = 2 /\ Len(pe_changes) = 2
    /\ pe_changes[2].search # <<>>
    /\ Contains(pe_original, pe_changes[2].search)
    /\ pe_content # pe_original
    /\ pe_failed = <<pe_changes[2]>>

-----------------------------------------------------------------------------
(* Properties of the session state *)

\* C7: an operation issued by one conversation never changes the context,
\* recent_files and current_plan that another conversation's plan,
\* execute-task, clarify and reset work on.
C7_ConversationsIsolated ==
    [][\A c \in Convs :
          last_call'.by # c => SessionSeenBy(c)' = SessionSeenBy(c)]_vars

\* the operation just made returned success with content for a file
ReturnedContent(call) ==
    /\ call.op \in {"execute_task", "handle_error"}
    /\ call.result.success
    /\ call.result.has_content

\* C8: recent_files follows the content returned by the most recent
\* successful create, update or error fix on each path: a step that returns
\* such a content for path p leaves recent_files[p] equal to it, and, reset
\* apart, no step changes or drops recent_files for any other path.
C8_RecentFilesInvariant ==
    [][/\ ReturnedContent(last_call') =>
             /\ last_call'.file \in DOMAIN recent_files'
             /\ recent_files'[last_call'.file] = last_call'.result.content
       /\ last_call'.op # "reset" =>
             \A q \in DOMAIN recent_files :
                 (~ReturnedContent(last_call') \/ q # last_call'.file) =>
                     /\ q \in DOMAIN recent_files'
                     /\ recent_files'[q] = recent_files[q]]_vars

-----------------------------------------------------------------------------
(* Properties of one _apply_diff call, continued *)

\* the lines of a text once CRLF is converted
LinesOf(t) == SplitLines(NormalizeEOL(t))

\* the starts (0-based) of the regions of consecutive lines of original that
\* differ from the lines of search, blank ones included, by leading and
\* trailing whitespace only
DriftRegions(original, search) ==
    LET ol == LinesOf(original)
        sl == LinesOf(search)
    IN  {i \in 0 .. (Len(ol) - Len(sl)) :
            \A k \in 1 .. Len(sl) : Strip(ol[i + k]) = Strip(sl[k])}

\* original with the n lines from start i (0-based) replaced by the lines of
\* replace
SpliceLines(original, i, n, replace) ==
    LET ol == LinesOf(original)
    IN  JoinLines(SubSeq(ol, 1, i) \o LinesOf(replace)
                     \o SubSeq(ol, i + n + 1, Len(ol)))

\* the call just made had a search that is no exact substring of original but
\* differs from a region of its lines by surrounding whitespace only
WhitespaceDrift(l) ==
    /\ l.called
    /\ l.original # <<>> /\ l.search # <<>>
    /\ ~Contains(NormalizeEOL(l.original), NormalizeEOL(l.search))
    /\ DriftRegions(l.original, l.search) # {}

\* C11: whenever search is no exact substring but differs from a region of
\* consecutive lines of original only by leading and trailing whitespace on
\* each line, blank lines included, the call returns matched = true and
\* original with such a region replaced by replace.
C11_WhitespaceDrift ==
    WhitespaceDrift(pe_last) =>
        /\ pe_last.matched
        /\ \E i \in DriftRegions(pe_last.original, pe_last.search) :
              pe_last.content =
                  SpliceLines(pe_last.original, i,
                              Len(LinesOf(pe_last.search)), pe_last.replace)

\* C12 as stated: a call with non-empty original and search that matches
\* neither exactly nor by the fuzzy rule returns matched = false and original
\* unchanged, character for character.
C12_AsStated ==
    (pe_last.called /\ pe_last.original # <<>> /\ pe_last.search # <<>>
        /\ ~pe_last.matched)
    => pe_last.content = pe_last.original

\* C12 amended: such a call returns matched = false and original with its
\* CRLF pairs converted to LF, which is original itself, character for
\* character, when original holds no CRLF pair.
C12_NoMatchFrame ==
    (pe_last.called /\ pe_last.original # <<>> /\ pe_last.search # <<>>
        /\ ~pe_last.matched)
    => /\ pe_last.content = NormalizeEOL(pe_last.original)
       /\ NoCRLF(pe_last.original) => pe_last.content = pe_last.original

\* C12 witness: an unmatched call on an original of several lines, one of
\* them ending in CRLF
C12_Witness ==
    /\ pe_last.called /\ ~pe_last.matched
    /\ pe_last.search # <<>>
    /\ Contains(pe_last.original, <<"a", CR, LF>>)
    /\ pe_last.content # pe_last.original

\* C13: a call with an empty original returns matched = true and replace
\* verbatim, whatever search is.
C13_EmptyOriginal ==
    (pe_last.called /\ pe_last.original = <<>>)
    => /\ pe_last.matched
       /\ pe_last.content = pe_last.replace

\* C13 witness: empty original, a non-empty search, a replace holding CRLF
C13_Witness ==
    /\ pe_last.called /\ pe_last.original = <<>>
    /\ pe_last.search # <<>>
    /\ pe_last.replace = <<CR, LF>>
    /\ pe_last.content = <<CR, LF>>

\* C14: a call with an empty search returns matched = true and replace
\* followed by original, unchanged.
C14_EmptySearch ==
    (pe_last.called /\ pe_last.search = <<>>)
    => /\ pe_last.matched
       /\ pe_last.content = pe_last.replace \o pe_last.original

\* C14 witness: empty search, an original with a CRLF line ending and a
\* replace other than the original's first characters
C14_Witness ==
    /\ pe_last.called /\ pe_last.search = <<>>
    /\ Contains(pe_last.original, <<CR, LF>>)
    /\ pe_last.replace = <<"a", LF>>
    /\ pe_last.content = pe_last.replace \o pe_last.original

-----------------------------------------------------------------------------
(* Properties of one execute_task call *)

\* the call of call_args has been made and has returned
StageReturned == last_call.op = "execute_task" /\ ~last_call.raised

\* C15: a task goes to the create stage if and only if task.action is
\* create or the current_content supplied is empty, and to the edit stage
\* otherwise; exactly one of the two stages is run by a call, and a
\* successful result is that stage's ("create" or "update").
C15_Routing ==
    last_call.op = "execute_task" =>
        LET toCreate == \/ call_args.task.action = "create"
                        \/ call_args.current_content = <<>>
        IN  /\ last_call.stage \in {"create", "edit"}
            /\ (last_call.stage = "create") <=> toCreate
            /\ last_call.result.success =>
                   last_call.result.action =
                       (IF toCreate THEN "create" ELSE "update")
            /\ last_call.result.error = "No changes provided" => ~toCreate
            /\ last_call.result.error = "Model failed to generate file content"
                   => toCreate

\* C15 witness: an update task with empty current_content was run by the
\* create stage, which returned a created file
C15_Witness ==
    /\ StageReturned
    /\ call_args.task.action = "update"
    /\ call_args.current_content = <<>>
    /\ last_call.stage = "create"
    /\ last_call.result.success
    /\ last_call.result.action = "create"

\* C19: when the answer the edit stage parsed is a dict with no changes
\* (the key missing, or an empty list), the edit stage returns success =
\* false with the error "No changes provided", and no content.
C19_NoChanges ==
    (/\ StageReturned
     /\ last_call.stage = "edit"
     /\ call_args.o.kind = "parsed"
     /\ call_args.o.changes = <<>>)
    => /\ ~last_call.result.success
       /\ last_call.result.error = "No changes provided"
       /\ ~last_call.result.has_content
       /\ last_call.result.content = <<>>
       /\ context = <<>> /\ recent_files = EmptyDict

\* C19 witness: the Orchestrator's edit stage got a dict without changes
\* for a file with content, and returned the error
C19_Witness ==
    /\ StageReturned
    /\ call_args.via = "orchestrator"
    /\ last_call.stage = "edit"
    /\ call_args.current_content # <<>>
    /\ call_args.o.kind = "parsed"
    /\ call_args.o.changes = <<>>
    /\ last_call.result.error = "No changes provided"

\* C20: when the answer the edit stage parsed holds at least one change,
\* the edit stage returns success = true, content equal to what threading
\* _apply_diff over the changes gives from current_content, changes_failed
\* equal to the number of unmatched changes, and changes_applied +
\* changes_failed equal to the number of changes supplied.
C20_PartialSuccess ==
    (/\ StageReturned
     /\ last_call.stage = "edit"
     /\ call_args.o.kind = "parsed"
     /\ call_args.o.changes # <<>>)
    => LET cc == call_args.current_content
           ch == call_args.o.changes
           r == last_call.result
       IN  /\ r.success
           /\ r.action = "update"
           /\ r.has_content
           /\ r.content = ThreadContent(cc, ch)
           /\ r.changes_failed = Len(ThreadFailed(cc, ch))
           /\ r.changes_applied + r.changes_failed = Len(ch)

\* C20 witness: the Orchestrator's edit stage got several changes of which
\* one matched and one did not, and returned success with both counts
C20_Witness ==
    /\ StageReturned
    /\ call_args.via = "orchestrator"
    /\ last_call.stage = "edit"
    /\ Len(call_args.o.changes) >= 2
    /\ last_call.result.success
    /\ last_call.result.changes_applied >= 1
    /\ last_call.result.changes_failed >= 1
    /\ last_call.result.content # call_args.current_content

\* C36: when the answer the edit stage parsed holds at least one change and
\* none of them matches, the edit stage still returns success = true with
\* changes_applied = 0 and the caller's current_content as content; the
\* Orchestrator then appends a ledger entry for the file and sets
\* recent_files[file] to that unchanged content.
C36_NothingApplied ==
    (/\ StageReturned
     /\ last_call.stage = "edit"
     /\ call_args.o.kind = "parsed"
     /\ call_args.o.changes # <<>>
     /\ Len(ThreadFailed(call_args.current_content, call_args.o.changes))
            = Len(call_args.o.changes))
    => LET r == last_call.result
       IN  /\ r.success
           /\ r.changes_applied = 0
           /\ r.changes_failed = Len(call_args.o.changes)
           /\ r.has_content
           /\ r.content = call_args.current_content
           /\ call_args.via = "orchestrator" =>
                  /\ context = <<[file |-> call_args.task.file,
                                  summary |-> call_args.o.summary.text]>>
                  /\ call_args.task.file \in DOMAIN recent_files
                  /\ recent_files[call_args.task.file]
                         = call_args.current_content

\* C36 witness: the Orchestrator's edit stage got two changes for a file
\* with content, neither matched, and the call returned success with the
\* content it was given, a ledger entry and recent_files written
C36_Witness ==
    /\ StageReturned
    /\ call_args.via = "orchestrator"
    /\ last_call.stage = "edit"
    /\ Len(call_args.o.changes) = 2
    /\ last_call.result.success
    /\ last_call.result.changes_applied = 0
    /\ last_call.result.changes_failed = 2
    /\ last_call.result.content = call_args.current_content
    /\ Len(context) = 1
    /\ call_args.task.file \in DOMAIN recent_files

-----------------------------------------------------------------------------
(* Properties of the Orchestrator's execute_task, step by step *)

\* the call returned a failed task result
FailedTask(call) ==
    call.op = "execute_task" /\ ~call.raised /\ ~call.result.success

\* the call returned a successful task result
SucceededTask(call) ==
    call.op = "execute_task" /\ ~call.raised /\ call.result.success

\* the model's answer held a summary: the summary returned is its text
SummaryProduced(call) == call.result.summary # ""

\* C16: every successful execute_task leaves recent_files[task.file] equal
\* to the content returned, appends one entry {file, summary} to context
\* when the stage produced a summary, and appends none otherwise.
C16_StateUpdate ==
    [][SucceededTask(last_call') =>
          /\ last_call'.file \in DOMAIN recent_files'
          /\ recent_files'[last_call'.file] = last_call'.result.content
          /\ IF SummaryProduced(last_call')
             THEN context' =
                      LastEntries(Append(context,
                          [file |-> last_call'.file,
                           summary |-> last_call'.result.summary]))
             ELSE context' = context]_vars

\* C17: an execute_task that returns success = false leaves context,
\* recent_files and current_plan as they were, and the calls that follow it
\* are processed as ever: a plan is stored and returned, a successful
\* execute_task records the content it returns.
C17_FailureFrame ==
    [][/\ FailedTask(last_call') =>
             /\ context' = context
             /\ recent_files' = recent_files
             /\ current_plan' = current_plan
       /\ FailedTask(last_call) =>
             /\ last_call'.op = "plan" =>
                    current_plan' = last_call'.result.plan
             /\ SucceededTask(last_call') =>
                    /\ last_call'.file \in DOMAIN recent_files'
                    /\ recent_files'[last_call'.file] =
                           last_call'.result.content]_vars

\* C17 witness: a failed execute_task on a session that holds a context
\* entry and a content for the very file of the task
C17_Witness ==
    /\ FailedTask(last_call)
    /\ last_call.result.error # ""
    /\ context # <<>>
    /\ last_call.file \in DOMAIN recent_files
    /\ recent_files[last_call.file] # <<>>

\* C18: whatever the model answers, plan, execute_task, clarify and the
\* error fix return: none of them raises to its caller, and a task result
\* with success = false carries an error string.
C18_NeverRaises ==
    /\ ~last_call.raised
    /\ (last_call.op \in {"execute_task", "handle_error"}
          /\ ~last_call.result.success) => last_call.result.error # ""

-----------------------------------------------------------------------------
(* Properties of the create stage *)

\* C21: on every create path of execute_task, the Orchestrator's CodeAgent
\* and the Agent of the HTTP routes alike, a parsed answer without file
\* content gives success = false, and neither context nor recent_files is
\* updated.
C21_CreateNoContent ==
    (/\ StageReturned
     /\ last_call.stage = "create"
     /\ call_args.o.kind = "parsed"
     /\ call_args.o.file_content = <<>>)
    => /\ ~last_call.result.success
       /\ context = <<>>
       /\ recent_files = EmptyDict

-----------------------------------------------------------------------------
(* Properties of plan, clarify and reset *)

\* C22: every planning call replaces current_plan wholesale: once a plan
\* call has returned a value P, a failure-shaped plan included, current_plan
\* is P, with the tasks of P and no task of the plan stored before.
C22_PlanReplaces ==
    [][last_call'.op = "plan" =>
          /\ current_plan' = last_call'.result.plan
          /\ current_plan'.tasks = last_call'.result.plan.tasks]_vars

C24_Reset ==
    [][/\ last_call'.op = "reset" =>
             /\ context' = <<>>
             /\ recent_files' = EmptyDict
             /\ current_plan' = NoPlan
       /\ last_call.op = "reset" =>
             /\ last_call'.op = "clarify" =>
                    /\ last_call'.result.error = "No active plan"
                    /\ last_call'.plans = 0
                    /\ current_plan' = NoPlan
             /\ last_call'.op = "plan" =>
                    current_plan' = last_call'.result.plan
             /\ SucceededTask(last_call') =>
                    /\ DOMAIN recent_files' = {last_call'.file}
                    /\ Len(context') <= 1
                    /\ \A i \in 1 .. Len(context') :
                          context'[i].file = last_call'.file]_vars

\* C24 witness: a reset that found entries, files or a plan to clear has
\* left none of them
C24_Witness ==
    /\ last_call.op = "reset"
    /\ last_call.cleared
    /\ context = <<>>
    /\ recent_files = EmptyDict
    /\ current_plan = NoPlan

\* C37: a clarification made while no plan is stored (current_plan is None:
\* no plan call yet, or a reset since) returns the error "No active plan",
\* calls neither the planner nor the model, and leaves context,
\* recent_files, current_plan and the key pool as they were.
C37_ClarifyWithoutPlan ==
    [][(last_call'.op = "clarify" /\ current_plan = NoPlan) =>
          /\ ~last_call'.raised
          /\ last_call'.result.error = "No active plan"
          /\ ~last_call'.result.success
          /\ last_call'.plans = 0
          /\ last_call'.request = <<>>
          /\ last_call'.calls = <<>>
          /\ UNCHANGED <<context, recent_files, current_plan>>
          /\ UNCHANGED <<api_keys, current_key_index, served>>]_vars

\* C37 witness: a clarification on an object that holds a ledger and recent
\* files but no plan was answered with the error, the ledger and the files
\* still there
C37_Witness ==
    /\ last_call.op = "clarify"
    /\ last_call.result.error = "No active plan"
    /\ last_call.plans = 0
    /\ current_plan = NoPlan
    /\ context # <<>>
    /\ recent_files # EmptyDict

-----------------------------------------------------------------------------
(* Properties of the key pool, continued *)

\* C38: handling a failure that is not classified as a rate limit changes
\* no cooldown state: from the moment the call is issued until the backoff
\* sleep begins, and when the sleep is over, every key's is_rate_limited
\* and rate_limit_reset_time and the cursor are what they were; only a
\* failure classified as a rate limit marks a key.
C38_GenericKeepsCooldowns ==
    [][/\ (/\ pc["c1"] = "oracle"
           /\ Len(log'["c1"]) = Len(log["c1"]) + 1
           /\ log'["c1"][Len(log'["c1"])].err.kind = "generic")
          => /\ pc'["c1"] = "backoff"
             /\ UNCHANGED <<api_keys, current_key_index>>
       /\ (pc["c1"] = "oracle" /\ pc'["c1"] = "oracle")
          => UNCHANGED <<api_keys, current_key_index>>
       /\ (pc["c1"] = "backoff" /\ pc'["c1"] # "backoff")
          => UNCHANGED <<api_keys, current_key_index>>
       /\ (pc["c1"] = "oracle" /\ api_keys' # api_keys)
          => /\ Len(log'["c1"]) = Len(log["c1"]) + 1
             /\ log'["c1"][Len(log'["c1"])].err.kind = "rate"]_vars

\* C38 witness: a call failed with a generic error while one key was in
\* its cooldown and the other was not, and sleeps with the pool as it was
C38_Witness ==
    /\ pc["c1"] = "backoff"
    /\ last_error["c1"].kind = "generic"
    /\ Len(api_keys) = 2
    /\ api_keys[1].is_rate_limited
    /\ api_keys[1].rate_limit_reset_time > now
    /\ ~api_keys[2].is_rate_limited
    /\ current_key_index = 1

\* the keys get_current_key goes past from the cursor `from` before it
\* stands on key `to`, in round-robin order
PassedOver(keys, from, to) ==
    {(from + k) % Len(keys) : k \in 0 .. (((to - from) % Len(keys)) - 1)}

\* C25: when every key is in its cooldown, get_current_key returns the key
\* with the soonest reset time and leaves the cursor on it; when some key is
\* not, it returns the first key at or after the cursor, in round-robin
\* order, whose cooldown is not running, and leaves the cursor on it.
C25_CurrentKey ==
    ev.op = "current" =>
        /\ current_key_index = ev.key
        /\ IF \A j \in KeyIdx(api_keys) : InCooldown(api_keys, j, now)
           THEN \A j \in KeyIdx(api_keys) :
                    api_keys[ev.key + 1].rate_limit_reset_time
                        <= api_keys[j + 1].rate_limit_reset_time
           ELSE /\ ~InCooldown(api_keys, ev.key, now)
                /\ \A j \in PassedOver(api_keys, ev.before, ev.key) :
                       InCooldown(api_keys, j, now)

\* C25 witness: with both keys cooling down until different times,
\* get_current_key left the cursor's key for the one that resets sooner
C25_Witness ==
    /\ ev.op = "current"
    /\ Len(api_keys) = 2
    /\ \A j \in KeyIdx(api_keys) : InCooldown(api_keys, j, now)
    /\ ev.key # ev.before
    /\ api_keys[ev.key + 1].rate_limit_reset_time
          < api_keys[ev.before + 1].rate_limit_reset_time
    /\ current_key_index = ev.key

\* C26: with no credential in the environment, construction of the key pool
\* fails: no pool exists afterwards and no key is ever handed out.
C26_NoKeysIsFatal ==
    (call_args.via = "environment" /\ call_args.n = 0) =>
        /\ api_keys = <<>>
        /\ ev.op # "current"
        /\ pc["c1"] = "idle"

\* handle_error has returned for a fix the model gave as a list of changes
FixReturned ==
    /\ last_call.op = "handle_error"
    /\ ~last_call.raised
    /\ call_args.o.kind = "parsed"
    /\ call_args.o.fix_type = "diff"

\* C27: a fix that carries no change makes handle_error return a failure; a
\* fix with at least one change makes it return what applying them all gives.
C27_FixWithoutChanges ==
    FixReturned =>
        IF call_args.o.changes = <<>>
        THEN ~last_call.result.success
        ELSE LET applied == apply_multiple_diffs(call_args.current_content,
                                                 call_args.o.changes)
             IN  /\ last_call.result.success
                 /\ last_call.result.content = applied.content
                 /\ last_call.result.changes_applied
                       = Len(call_args.o.changes) - Len(applied.failed)

-----------------------------------------------------------------------------
(* BaseAgent._parse_json.  A text is a sequence of runs: n copies of one
   symbol, so that long and deeply nested answers stay small values.  The
   symbols are the brackets and braces of JSON, a letter that is no JSON,
   a blank, and the two code fences. *)

MaxRuns == 4                 \* runs in the model's answer
PreviewLen == 500            \* text[:500]
RecursionLimit == 1000       \* nesting the interpreter's JSON scanner accepts
Long == PreviewLen + 1       \* a run longer than the preview
Deep == 100 * RecursionLimit \* a run nested deeper than the scanner accepts

Run(ch, n) == [ch |-> ch, n |-> n]
JsonFence == "fence-json"   \* three backticks and the word json
Fence == "fence"            \* three backticks
RunPool ==
    {Run("[", 1), Run("[", Deep), Run("]", 1), Run("{", 1), Run("}", 1),
     Run("x", 1), Run("x", Long), Run(" ", 1), Run(JsonFence, 1), Run(Fence, 1)}
AnswerTexts == UNION {[1 .. n -> RunPool] : n \in 0 .. MaxRuns}

\* len(text)
Width(ch) == IF ch = JsonFence THEN 7 ELSE IF ch = Fence THEN 3 ELSE 1
RECURSIVE TextLen(_)
TextLen(t) ==
    IF t = <<>> THEN 0 ELSE Width(t[1].ch) * t[1].n + TextLen(Tail(t))

\* text.strip()
strip(t) ==
    LET ink == {i \in 1 .. Len(t) : t[i].ch # " "}
    IN  IF ink = {} THEN <<>>
        ELSE SubSeq(t, CHOOSE i \in ink : \A j \in ink : i <= j,
                       CHOOSE i \in ink : \A j \in ink : i >= j)

\* text.split(sep)[1].split(fence)[0]: what follows the first sep, up to the
\* next three backticks (the json fence begins with them)
IsFence(r) == r.ch \in {JsonFence, Fence}
UpToFence(t) ==
    LET at == {i \in 1 .. Len(t) : IsFence(t[i])}
    IN  IF at = {} THEN t
        ELSE SubSeq(t, 1, (CHOOSE i \in at : \A j \in at : i <= j) - 1)
Fenced(t, seps) ==
    LET at == {i \in 1 .. Len(t) : t[i].ch \in seps}
    IN  UpToFence(SubSeq(t, (CHOOSE i \in at : \A j \in at : i <= j) + 1,
                         Len(t)))

\* the removal of markdown code blocks
Unfence(t) ==
    IF \E i \in 1 .. Len(t) : t[i].ch = JsonFence
    THEN Fenced(t, {JsonFence})
    ELSE IF \E i \in 1 .. Len(t) : IsFence(t[i])
    THEN Fenced(t, {JsonFence, Fence})
    ELSE t

\* json.loads over these symbols: blanks are skipped; each "[" opens an array
\* and the scanner calls itself for its element, so more than RecursionLimit
\* of them in a row raise RecursionError before anything after them is
\* read; what remains has to be an optional "{}" and the matching "]"s.
RECURSIVE Opens(_)
Opens(t) ==
    IF t # <<>> /\ t[1].ch = "[" THEN t[1].n + Opens(Tail(t)) ELSE 0
RECURSIVE AfterOpens(_)
AfterOpens(t) ==
    IF t # <<>> /\ t[1].ch = "[" THEN AfterOpens(Tail(t)) ELSE t
RECURSIVE Closes(_)
Closes(t) ==
    IF t = <<>> THEN 0
    ELSE IF t[1].ch = "]" THEN t[1].n + Closes(Tail(t))
    ELSE -1 - Deep * Len(t)
EmptyObject == <<Run("{", 1), Run("}", 1)>>
json_loads(t) ==
    LET ink == SelectSeq(t, LAMBDA r : r.ch # " ")
        k == Opens(ink)
        rest == AfterOpens(ink)
        obj == Len(rest) >= 2 /\ SubSeq(rest, 1, 2) = EmptyObject
        tail == IF obj THEN SubSeq(rest, 3, Len(rest)) ELSE rest
    IN  IF k > RecursionLimit
        THEN [kind |-> "RecursionError", depth |-> 0, object |-> FALSE]
        ELSE IF (k > 0 \/ obj) /\ Closes(tail) = k
        THEN [kind |-> "value", depth |-> k, object |-> obj]
        ELSE [kind |-> "JSONDecodeError", depth |-> 0, object |-> FALSE]

\* re.search(r'(\{.*\})', text, re.DOTALL): from the first { to the last }
BraceSpan(t) ==
    LET open == {i \in 1 .. Len(t) : t[i].ch = "{"}
        close == {i \in 1 .. Len(t) : t[i].ch = "}"}
        i == CHOOSE a \in open : \A b \in open : a <= b
        j == CHOOSE a \in close : \A b \in close : a >= b
    IN  IF open # {} /\ close # {} /\ i < j THEN SubSeq(t, i, j) ELSE <<>>

\* text[:m]
RECURSIVE Preview(_, _)
Preview(t, m) ==
    IF t = <<>> \/ m <= 0 THEN <<>>
    ELSE LET w == Width(t[1].ch) * t[1].n
         IN  IF w <= m THEN <<t[1]>> \o Preview(Tail(t), m - w)
             ELSE IF Width(t[1].ch) = 1 THEN <<Run(t[1].ch, m)>>
             ELSE <<Run("tick", m)>>

Truncate(t) == Preview(t, PreviewLen)

\* what _parse_json returns, or that it raised: only json.JSONDecodeError is
\* caught around the first json.loads, everything is caught around the second
NoValue == [kind |-> "none", depth |-> 0, object |-> FALSE]
parse_json(text) ==
    LET t == strip(Unfence(strip(text)))
        first == json_loads(t)
        span == BraceSpan(t)
        second == IF span = <<>> THEN NoValue ELSE json_loads(span)
    IN  IF first.kind = "value"
        THEN [kind |-> "value", value |-> first, raw |-> <<>>]
        ELSE IF first.kind # "JSONDecodeError"
        THEN [kind |-> "raised", value |-> first, raw |-> <<>>]
        ELSE IF second.kind = "value"
        THEN [kind |-> "value", value |-> second, raw |-> <<>>]
        ELSE [kind |-> "sentinel", value |-> NoValue, raw |-> Truncate(t)]

\* _parse_json(text) is called on the answer of the model
ParseArgs == [via : {"parse"}, text : AnswerTexts]
ParseText ==
    /\ call_args.via = "parse"
    /\ last_call.op = "none"
    /\ LET r == parse_json(call_args.text)
       IN  last_call' = [NoCall EXCEPT !.by = "A", !.op = "_parse_json",
                                       !.raised = (r.kind = "raised"),
                                       !.result = r]
    /\ UNCHANGED <<context, recent_files, current_plan, call_args, rlVars,
                   peVars>>

NextParse == ParseText

InitParse ==
    /\ RLIdle /\ PEIdle
    /\ context = <<>>
    /\ recent_files = EmptyDict
    /\ current_plan = NoPlan
    /\ last_call = NoCall
    /\ call_args \in ParseArgs

SpecParse == InitParse /\ [][NextParse]_vars

\* C28: _parse_json never raises: for every text it returns the decoded
\* structure or the {error, raw} dict, whose raw is at most 500 characters.
C28_ParseNeverFails ==
    last_call.op = "_parse_json" =>
        /\ ~last_call.raised
        /\ last_call.result.kind \in {"value", "sentinel"}
        /\ TextLen(last_call.result.raw) <= PreviewLen

-----------------------------------------------------------------------------
(* Termination of execute_with_retry *)

\* the oracle invocations of the call of c so far: one log entry each
OracleCalls(c) == Len(log[c])
Running(c) == pc[c] \in {"attempt", "oracle", "wait", "backoff"}
Ended(c) == pc[c] \in {"returned", "raised"}

\* C29: a generate call never invokes the oracle more than max_retries (3)
\* times, and once entered it eventually returns or raises, whatever the
\* oracle answers and however many keys there are.
C29_Terminates ==
    /\ [](OracleCalls("c1") <= max_retries)
    /\ (Running("c1") ~> Ended("c1"))

\* C29 witness: a call ended after three oracle invocations that mixed a
\* rate-limit wait and a generic failure, having slept past the horizon
C29_Witness ==
    /\ Ended("c1")
    /\ OracleCalls("c1") = max_retries
    /\ CountHow(log["c1"], "wait") >= 1
    /\ CountHow(log["c1"], "backoff") >= 1
    /\ now > horizon

\* the latest oracle invocation of c, as logged
LastLogged(l) == l[Len(l)]

\* C39: every failed attempt that does not rotate to another key at once is
\* followed by its sleep, of a second or more, the last attempt of the
\* budget included: the call leaves a sleep only when its time has gone by,
\* and it raises only out of a finished sleep or out of a rotation.
C39_SleepsBeforeRaising ==
    [][/\ (/\ pc["c1"] = "oracle"
           /\ Len(log'["c1"]) = Len(log["c1"]) + 1
           /\ LastLogged(log'["c1"]).kind # "ok"
           /\ LastLogged(log'["c1"]).how # "rotate")
          => /\ pc'["c1"] \in {"wait", "backoff"}
             /\ LastLogged(log'["c1"]).how = pc'["c1"]
             /\ wake_at'["c1"] >= now + 1
             /\ now' = now
       /\ (pc["c1"] \in {"wait", "backoff"} /\ pc'["c1"] # pc["c1"])
          => /\ now >= wake_at["c1"]
             /\ pc'["c1"] \in {"attempt", "raised"}
       /\ (pc["c1"] # "raised" /\ pc'["c1"] = "raised")
          => \/ pc["c1"] \in {"wait", "backoff"} /\ now >= wake_at["c1"]
             \/ /\ pc["c1"] = "oracle"
                /\ Len(log'["c1"]) = Len(log["c1"]) + 1
                /\ LastLogged(log'["c1"]).how = "rotate"]_vars

\* C39 witness: three generic failures in a row, each followed by its
\* backoff (1, 2 and 4 seconds), and the call raised after the third sleep
C39_Witness ==
    /\ pc["c1"] = "raised"
    /\ Len(log["c1"]) = max_retries
    /\ \A i \in 1 .. max_retries : log["c1"][i].how = "backoff"
    /\ now >= 7

\* C40: whatever calls of get_current_key, mark_rate_limited and
\* execute_with_retry have been made, the pool holds at least one key and
\* the cursor current_key_index is an index of it, 0 <= cursor < N; so is
\* every key get_current_key returned and every key marked.
C40_CursorInRange ==
    /\ Len(api_keys) >= 1
    /\ current_key_index \in 0 .. (Len(api_keys) - 1)
    /\ ev.op \in {"current", "mark"} =>
           /\ ev.key \in 0 .. (Len(api_keys) - 1)
           /\ ev.before \in 0 .. (Len(api_keys) - 1)

\* C40 witness: with two keys, the last key of the list was marked and the
\* cursor went round to the first
C40_Witness ==
    /\ Len(api_keys) = 2
    /\ ev.op = "mark"
    /\ ev.key = 1
    /\ api_keys[2].is_rate_limited
    /\ current_key_index = 0

\* a key other than k whose cooldown is not running at time t
OtherKeyFree(keys, k, t) ==
    \E j \in KeyIdx(keys) \ {k} : ~InCooldown(keys, j, t)

\* C30: a rate-limit failure marks the key that served the call, with reset
\* time now + the delay parsed from the error (60 when none is found); and
\* if the cooldown of some other key is not running, the call does not go to
\* sleep, and the attempt that follows is served by a different key.
C30_RotateWithoutSleep ==
    [][/\ (ev'.op = "mark" /\ ev'.by = "c1") =>
            /\ ev'.key = served["c1"]
            /\ api_keys'[ev'.key + 1].is_rate_limited
            /\ api_keys'[ev'.key + 1].rate_limit_reset_time
                  = now + parse_retry_delay(last_error'["c1"])
            /\ OtherKeyFree(api_keys', ev'.key, now) => pc'["c1"] # "wait"
       /\ (/\ ev.op = "mark" /\ ev.by = "c1"
           /\ OtherKeyFree(api_keys, ev.key, now)
           /\ ev'.op = "current" /\ ev'.by = "c1") => ev'.key # ev.key
      ]_vars

-----------------------------------------------------------------------------
(* Properties of the sleeps of execute_with_retry *)

\* C31: no sleep of a generate call is longer than max_delay (60 s), be it
\* the backoff after a generic error or the wait for a key to reset,
\* whatever delay the error text carries.
C31_SleepAtMostMaxDelay ==
    pc["c1"] \in {"wait", "backoff"} => wake_at["c1"] - now <= max_delay

-----------------------------------------------------------------------------
(* Properties of the key records *)

\* key i of the pool was limited and is re-armed by this step
Rearmed(i) ==
    api_keys[i + 1].is_rate_limited /\ ~api_keys'[i + 1].is_rate_limited

\* C32: no step adds or removes a key; a key's flag goes from limited to not
\* limited only at a time at or after its reset time; and a key that is not
\* flagged as limited has its reset time at or before now.
C32_RearmOnlyWhenElapsed ==
    [][/\ Len(api_keys') = Len(api_keys)
       /\ \A i \in KeyIdx(api_keys) :
              /\ Rearmed(i) =>
                    /\ now >= api_keys[i + 1].rate_limit_reset_time
                    /\ now' = now
              /\ ~api_keys'[i + 1].is_rate_limited =>
                    api_keys'[i + 1].rate_limit_reset_time <= now'
      ]_vars

\* C32 witness: of two keys that were limited, the one whose cooldown has
\* elapsed is re-armed while the other is still limited
C32_Witness ==
    /\ Len(api_keys) = 2
    /\ \E i, j \in KeyIdx(api_keys) :
          /\ ~api_keys[i + 1].is_rate_limited
          /\ api_keys[i + 1].rate_limit_reset_time > 0
          /\ api_keys[i + 1].rate_limit_reset_time <= now
          /\ api_keys[j + 1].is_rate_limited
          /\ api_keys[j + 1].rate_limit_reset_time > now
    /\ pc["c1"] = "attempt" /\ attempt["c1"] > 0

-----------------------------------------------------------------------------
(* Properties of the fuzzy fallback of _apply_diff *)

\* the call just made went past the exact match: original and search are not
\* empty and search is no substring of original
FuzzyReached(l) ==
    /\ l.called
    /\ l.original # <<>> /\ l.search # <<>>
    /\ ~Contains(NormalizeEOL(l.original), NormalizeEOL(l.search))

\* the non-blank lines of search, trimmed
TrimmedSearch(l) == NonBlankStripped(LinesOf(l.search))

\* the starts (0-based) of the windows of original lines, as long as the
\* trimmed search, in which at least 80% of the trimmed lines are equal to
\* the search lines
GoodWindows(l) ==
    LET ol == LinesOf(l.original)
        sl == TrimmedSearch(l)
    IN  {i \in 0 .. (Len(ol) - Len(sl)) :
            10 * WindowMatches(ol, sl, i) >= 8 * Len(sl)}

\* those of them with the best score
BestWindows(l) ==
    LET ol == LinesOf(l.original)
        sl == TrimmedSearch(l)
    IN  {i \in GoodWindows(l) :
            \A j \in GoodWindows(l) :
                WindowMatches(ol, sl, i) >= WindowMatches(ol, sl, j)}

\* the result is original with a best window replaced by the lines of replace
SplicedAtBest(l) ==
    \E i \in BestWindows(l) :
        l.content = SpliceLines(l.original, i, Len(TrimmedSearch(l)), l.replace)

\* C33: past the exact match, the call returns matched = true if and only
\* if some window has at least 80% of its trimmed lines equal to the search
\* lines, and the result is then original with the best window replaced by
\* the lines of replace; a search of blank lines only, whose windows have no
\* line to compare, is not matched.
C33_FuzzyRule ==
    FuzzyReached(pe_last) =>
        IF TrimmedSearch(pe_last) = <<>>
        THEN ~pe_last.matched
        ELSE /\ pe_last.matched <=> GoodWindows(pe_last) # {}
             /\ pe_last.matched => SplicedAtBest(pe_last)

\* C33 witness: a five-line search that is no substring matched a window
\* four of whose five trimmed lines are equal to its own, and the window was
\* replaced by the lines of replace as they are
C33_Witness ==
    /\ FuzzyReached(pe_last)
    /\ pe_last.matched
    /\ Len(TrimmedSearch(pe_last)) = 5
    /\ \E i \in BestWindows(pe_last) :
          WindowMatches(LinesOf(pe_last.original), TrimmedSearch(pe_last), i) = 4
    /\ SplicedAtBest(pe_last)
    /\ pe_last.content = pe_last.replace

-----------------------------------------------------------------------------
(* Properties of the design stage *)

\* C34: execute_task calls the design stage exactly for a file task whose
\* path ends in .jsx or .tsx, before the generation call of its create or
\* edit stage; and when the design generation fails, the create or edit
\* stage still runs, with empty guidelines.
C34_DesignFirst ==
    (call_args.via = "orchestrator" /\ last_call.op = "execute_task") =>
        LET ui == call_args.task.type = "file" /\ call_args.task.file \in UIPaths
            calls == last_call.calls
        IN  /\ ui <=> \E i \in 1 .. Len(calls) : calls[i] = "design"
            /\ \A i, j \in 1 .. Len(calls) :
                  (calls[i] = "design" /\ calls[j] \in {"create", "edit"})
                      => i < j
            /\ Cardinality({i \in 1 .. Len(calls) : calls[i] = "design"}) <= 1
            /\ (ui /\ call_args.d = "failed") =>
                  /\ ~last_call.raised
                  /\ calls = <<"design", last_call.stage>>
                  /\ last_call.guidelines = <<>>
                  /\ last_call.result =
                        (IF last_call.stage = "create"
                         THEN create_file(call_args.task, call_args.o)
                         ELSE update_file(call_args.task,
                                          call_args.current_content,
                                          call_args.o))

\* C34 witness: the design generation failed for a .jsx file task and the
\* edit stage ran after it and succeeded
C34_Witness ==
    /\ call_args.via = "orchestrator"
    /\ last_call.op = "execute_task"
    /\ call_args.task.file \in UIPaths
    /\ call_args.d = "failed"
    /\ last_call.calls = <<"design", "edit">>
    /\ last_call.result.success

-----------------------------------------------------------------------------
(* Properties of the generate flow *)

\* the tasks before task i of the request that ran on the same path and
\* succeeded
EarlierOnPath(a, i) ==
    {j \in 1 .. (i - 1) : a.tasks[j].file = a.tasks[i].file
                            /\ a.results[j].success}

\* the content task i is to be given: what the latest of them returned, or
\* the stored content of the path
ContentDue(a, i) ==
    IF EarlierOnPath(a, i) = {} THEN a.stored[a.tasks[i].file]
    ELSE LET last == CHOOSE j \in EarlierOnPath(a, i) :
                         \A k \in EarlierOnPath(a, i) : k <= j
         IN  a.results[last].content

\* C35: the tasks of the plan run in the order of the plan, one at a time,
\* and each is given the content returned by the latest earlier successful
\* task on its path, or the stored content of the path when there is none.
C35_SequentialContent ==
    call_args.via = "generate" =>
        /\ Len(call_args.given) = Len(call_args.results)
        /\ Len(call_args.results) <= Len(call_args.tasks)
        /\ \A i \in 1 .. Len(call_args.results) :
              call_args.given[i] = ContentDue(call_args, i)

=============================================================================
